---------------------------- MODULE Spec2Model ----------------------------
(***************************************************************************)
(* Gesture-driven camera control of the particle canvas.                   *)
(*                                                                         *)
(*   GestureOverlay (src/unnamed/part_001): the webcam loop predictWebcam, *)
(*     the landmark classifier and the gesture tracking refs.              *)
(*   GestureService (src/services/gestureService.ts): detect().            *)
(*   App, CameraRig, CenterRaycaster (src/components/AlbumLayer.tsx,       *)
(*     lines 293-714): handleGesture, the focus/restore animator and the   *)
(*     object selector.                                                    *)
(*                                                                         *)
(* Number representation.  Landmark coordinates are normalised to [0,1]    *)
(* in the code; here they are integers in thousandths.  Smoothed rotation  *)
(* deltas and orbit angles are integers in millionths (of a normalised     *)
(* unit, of a radian).  World lengths are integers in hundredths of a      *)
(* world unit.  Math.hypot(a) < Math.hypot(b) is compared on the squares.  *)
(***************************************************************************)
EXTENDS Integers, Sequences, FiniteSets, TLC

(***************************************************************************)
(* Bounds of the model.                                                    *)
(***************************************************************************)
\* Video timestamps run 0..MaxVideoTime, so a behaviour hands at most
\* MaxVideoTime + 1 frames to the detector.
MaxVideoTime == 2
\* At most MaxObjs interactable objects are seen by one selector scan.
MaxObjs == 2

\* At most MaxCandidates candidates are ranked in a behaviour of SpecRank.
MaxCandidates == 3

\* Grab events delivered in a behaviour of SpecGrab.
MaxGrabs == 2

\* Render ticks in a behaviour of SpecRig.
MaxTicks == 8

\* Largest azimuth, in millionths of a radian, a behaviour of SpecOrbit turns to.
MaxTurn == 3000000

\* Largest distance from the origin, in hundredths, a behaviour of SpecZoom goes to.
MaxRange == 10100

\* predictWebcam loops alive at once in a behaviour of SpecLifecycle.
MaxChains == 2

\* startCamera calls that can be in flight at once in a behaviour of
\* SpecInitialize.
MaxCallers == 3

\* The layer list holds at most MaxLayers layers in a behaviour of SpecPanel.
MaxLayers == 5

\* uuidv4() is called at most MaxUuids times in a behaviour of SpecPanel.
MaxUuids == 6

(***************************************************************************)
(* Program constants.                                                      *)
(***************************************************************************)
\* deadzone of the rotate gesture, 0.005 (thousandths)
DEADZONE == 5
\* pinch thresholds 0.05 and 0.12 (thousandths)
PINCH_OUT == 50
PINCH_IN == 120
\* smoothing factor 0.4 = SMOOTH_NUM / SmoothDen
SMOOTH_NUM == 4
SmoothDen == 10
\* handleGesture: SENSITIVITY = 20.0
SENSITIVITY == 20
\* polar clamp margin 0.1 rad (millionths)
POLAR_EPS == 100000
\* Math.PI (millionths of a radian)
PI_MICRO == 3141593
\* ZOOM_STEP = 1.0
ZOOM_STEP == 1
\* zoom distance limits 5 and 100 world units (hundredths)
ZOOM_MIN == 500
ZOOM_MAX == 10000
\* CameraRig: step = 4 * delta
RIG_RATE == 4
\* restore epsilon 0.1 world units (hundredths)
RESTORE_EPS == 10
\* null: an absent palm position, focus target or hand
None == <<>>
\* activeGesture = null
NoGesture == "null"

(***************************************************************************)
(* Vectors.                                                                *)
(***************************************************************************)
Abs(n) == IF n < 0 THEN -n ELSE n

V3Add(a, b) == <<a[1] + b[1], a[2] + b[2], a[3] + b[3]>>

V3Sub(a, b) == <<a[1] - b[1], a[2] - b[2], a[3] - b[3]>>

V3Scale(a, k) == <<a[1] * k, a[2] * k, a[3] * k>>

V3LenSq(a) == a[1] * a[1] + a[2] * a[2] + a[3] * a[3]

\* Math.hypot(p.x - q.x, p.y - q.y), squared
Hypot2(p, q) == (p[1] - q[1]) * (p[1] - q[1]) + (p[2] - q[2]) * (p[2] - q[2])

(***************************************************************************)
(* Landmark classifier: detectFist, detectOpenPalm, detectTwoFingers.      *)
(* A hand is a function from landmark index to <<x, y>>.                   *)
(***************************************************************************)
WRIST == 0
THUMB_TIP == 4
INDEX_PIP == 6
INDEX_TIP == 8
PALM_CENTER == 9
MIDDLE_PIP == 10
MIDDLE_TIP == 12
RING_PIP == 14
RING_TIP == 16
PINKY_PIP == 18
PINKY_TIP == 20

isFolded(landmarks, tipIdx, pipIdx) ==
    Hypot2(landmarks[tipIdx], landmarks[WRIST]) < Hypot2(landmarks[pipIdx], landmarks[WRIST])

isExtended(landmarks, tipIdx, pipIdx) ==
    Hypot2(landmarks[tipIdx], landmarks[WRIST]) > Hypot2(landmarks[pipIdx], landmarks[WRIST])

detectFist(landmarks) ==
    /\ isFolded(landmarks, INDEX_TIP, INDEX_PIP)
    /\ isFolded(landmarks, MIDDLE_TIP, MIDDLE_PIP)
    /\ isFolded(landmarks, RING_TIP, RING_PIP)
    /\ isFolded(landmarks, PINKY_TIP, PINKY_PIP)

\* faulty variant of detectOpenPalm: only the index and middle fingers are
\* looked at
detectOpenPalmRelaxed(landmarks) ==
    /\ isExtended(landmarks, INDEX_TIP, INDEX_PIP)
    /\ isExtended(landmarks, MIDDLE_TIP, MIDDLE_PIP)

detectOpenPalm(landmarks) ==
    /\ isExtended(landmarks, INDEX_TIP, INDEX_PIP)
    /\ isExtended(landmarks, MIDDLE_TIP, MIDDLE_PIP)
    /\ isExtended(landmarks, RING_TIP, RING_PIP)
    /\ isExtended(landmarks, PINKY_TIP, PINKY_PIP)

detectTwoFingers(landmarks) ==
    /\ isExtended(landmarks, INDEX_TIP, INDEX_PIP)
    /\ isExtended(landmarks, MIDDLE_TIP, MIDDLE_PIP)
    /\ isFolded(landmarks, RING_TIP, RING_PIP)
    /\ isFolded(landmarks, PINKY_TIP, PINKY_PIP)

\* dist = Math.hypot(thumb.x - index.x, thumb.y - index.y), squared
pinchDistSq(landmarks) == Hypot2(landmarks[THUMB_TIP], landmarks[INDEX_TIP])

(***************************************************************************)
(* Hands fed to the webcam loop.  Every hand is the same skeleton moved so *)
(* that its palm centre (landmark 9) is at `palm`; each finger is either   *)
(* extended (tip beyond the pip, seen from the wrist) or folded, and the   *)
(* thumb tip sits `pinch` thousandths beside the index tip.                *)
(***************************************************************************)
BasePalm == <<480, 760>>

BaseHand(idx, mid, ring, pinky, pinch) ==
    LET tip(pip, ext) == IF ext THEN <<pip[1], pip[2] - 150>> ELSE <<pip[1], pip[2] + 100>>
        indexTip == tip(<<440, 700>>, idx)
    IN  (WRIST :> <<500, 900>>) @@ (THUMB_TIP :> <<indexTip[1] - pinch, indexTip[2]>>)
        @@ (INDEX_PIP :> <<440, 700>>) @@ (INDEX_TIP :> indexTip)
        @@ (PALM_CENTER :> BasePalm)
        @@ (MIDDLE_PIP :> <<480, 690>>) @@ (MIDDLE_TIP :> tip(<<480, 690>>, mid))
        @@ (RING_PIP :> <<520, 700>>) @@ (RING_TIP :> tip(<<520, 700>>, ring))
        @@ (PINKY_PIP :> <<560, 720>>) @@ (PINKY_TIP :> tip(<<560, 720>>, pinky))

MoveHand(h, palm) ==
    [i \in DOMAIN h |-> <<h[i][1] + palm[1] - BasePalm[1], h[i][2] + palm[2] - BasePalm[2]>>]

FistHand == BaseHand(FALSE, FALSE, FALSE, FALSE, 30)

OpenHand == BaseHand(TRUE, TRUE, TRUE, TRUE, 150)

\* palm centres of the two-finger hand: the second is inside the deadzone of the
\* first, the third far from both
PalmPositions == {<<480, 760>>, <<483, 762>>, <<500, 730>>}

TwoFingerHand(palm) == MoveHand(BaseHand(TRUE, TRUE, FALSE, FALSE, 150), palm)

\* index finger alone: none of fist, open palm, two-finger point
PinchDistances == {49, 50, 120, 121}

PinchHand(d) == BaseHand(TRUE, FALSE, FALSE, FALSE, d)

Hands ==
    {FistHand, OpenHand}
    \cup {TwoFingerHand(p) : p \in PalmPositions}
    \cup {PinchHand(d) : d \in PinchDistances}

\* results.landmarks of one detection: no hand, one hand, or two hands
DetectResults ==
    {<<>>} \cup {<<h>> : h \in Hands} \cup {<<h, FistHand>> : h \in Hands}

(***************************************************************************)
(* Gesture state machine: the gesture logic of predictWebcam.              *)
(* `st` is the tracking state [wasFist, lastPalmPos, smoothRot]; the       *)
(* result is the tracking state after the frame, the onGesture calls made  *)
(* in order, and the label given to setActiveGesture.                      *)
(***************************************************************************)
\* lerp(start, end, 0.4) of line 13, on millionths
lerp(start, end) == start + ((end - start) * SMOOTH_NUM) \div SmoothDen

\* faulty variant of FistBranch: the Grab is level-triggered
FistBranchEveryFrame(st) ==
    [wasFist |-> TRUE, lastPalmPos |-> None, smoothRot |-> st.smoothRot,
     events |-> <<[type |-> "Grab"]>>,
     label |-> "Grab"]

\* faulty variant of FistBranch: the last palm position survives the frame
FistBranchKeepsPalm(st) ==
    [wasFist |-> TRUE, lastPalmPos |-> st.lastPalmPos, smoothRot |-> st.smoothRot,
     events |-> IF ~st.wasFist THEN <<[type |-> "Grab"]>> ELSE <<>>,
     label |-> IF ~st.wasFist THEN "Grab" ELSE "Hold"]

FistBranch(st) ==
    [wasFist |-> TRUE, lastPalmPos |-> None, smoothRot |-> st.smoothRot,
     events |-> IF ~st.wasFist THEN <<[type |-> "Grab"]>> ELSE <<>>,
     label |-> IF ~st.wasFist THEN "Grab" ELSE "Hold"]

\* faulty variant of OpenPalmBranch: the Release is edge-triggered on wasFist
OpenPalmBranchOnEdge(st) ==
    [wasFist |-> FALSE, lastPalmPos |-> None, smoothRot |-> st.smoothRot,
     events |-> IF st.wasFist THEN <<[type |-> "Release"]>> ELSE <<>>,
     label |-> "Release"]

OpenPalmBranch(st) ==
    [wasFist |-> FALSE, lastPalmPos |-> None, smoothRot |-> st.smoothRot,
     events |-> <<[type |-> "Release"]>>,
     label |-> "Release"]

\* faulty variant of TwoFingersBranch: wasFist is cleared inside the
\* `!isInPreview` block, so a preview-mode frame leaves it alone
TwoFingersBranchKeepsFist(st, palmCenter, isInPreview) ==
    IF ~isInPreview
    THEN IF st.lastPalmPos # None
         THEN LET dx == palmCenter[1] - st.lastPalmPos[1]
                  dy == palmCenter[2] - st.lastPalmPos[2]
                  sx == lerp(st.smoothRot[1], dx * 1000)
                  sy == lerp(st.smoothRot[2], dy * 1000)
              IN  IF Abs(dx) > DEADZONE \/ Abs(dy) > DEADZONE
                  THEN [wasFist |-> FALSE, lastPalmPos |-> palmCenter,
                        smoothRot |-> <<sx, sy>>,
                        events |-> <<[type |-> "Rotate", dx |-> -sx, dy |-> sy]>>,
                        label |-> "Move"]
                  ELSE [wasFist |-> FALSE, lastPalmPos |-> palmCenter,
                        smoothRot |-> st.smoothRot, events |-> <<>>,
                        label |-> st.label]
         ELSE [wasFist |-> FALSE, lastPalmPos |-> palmCenter,
               smoothRot |-> st.smoothRot, events |-> <<>>, label |-> st.label]
    ELSE [wasFist |-> st.wasFist, lastPalmPos |-> st.lastPalmPos,
          smoothRot |-> st.smoothRot, events |-> <<>>, label |-> "Disabled"]

TwoFingersBranch(st, palmCenter, isInPreview) ==
    IF ~isInPreview
    THEN IF st.lastPalmPos # None
         THEN LET dx == palmCenter[1] - st.lastPalmPos[1]
                  dy == palmCenter[2] - st.lastPalmPos[2]
                  sx == lerp(st.smoothRot[1], dx * 1000)
                  sy == lerp(st.smoothRot[2], dy * 1000)
              IN  IF Abs(dx) > DEADZONE \/ Abs(dy) > DEADZONE
                  THEN [wasFist |-> FALSE, lastPalmPos |-> palmCenter,
                        smoothRot |-> <<sx, sy>>,
                        events |-> <<[type |-> "Rotate", dx |-> -sx, dy |-> sy]>>,
                        label |-> "Move"]
                  ELSE [wasFist |-> FALSE, lastPalmPos |-> palmCenter,
                        smoothRot |-> st.smoothRot, events |-> <<>>,
                        label |-> st.label]
         ELSE [wasFist |-> FALSE, lastPalmPos |-> palmCenter,
               smoothRot |-> st.smoothRot, events |-> <<>>, label |-> st.label]
    ELSE [wasFist |-> FALSE, lastPalmPos |-> st.lastPalmPos,
          smoothRot |-> st.smoothRot, events |-> <<>>, label |-> "Disabled"]

\* faulty variant of ZoomBranch: the two thresholds are inclusive
ZoomBranchInclusive(st, landmarks) ==
    LET d2 == pinchDistSq(landmarks)
    IN  [wasFist |-> FALSE, lastPalmPos |-> None, smoothRot |-> st.smoothRot,
         events |-> IF d2 <= PINCH_OUT * PINCH_OUT THEN <<[type |-> "ZoomOut"]>>
                    ELSE IF d2 >= PINCH_IN * PINCH_IN THEN <<[type |-> "ZoomIn"]>>
                    ELSE <<>>,
         label |-> IF d2 <= PINCH_OUT * PINCH_OUT THEN "Zoom Out"
                   ELSE IF d2 >= PINCH_IN * PINCH_IN THEN "Zoom In"
                   ELSE "Idle"]

ZoomBranch(st, landmarks) ==
    LET d2 == pinchDistSq(landmarks)
    IN  [wasFist |-> FALSE, lastPalmPos |-> None, smoothRot |-> st.smoothRot,
         events |-> IF d2 < PINCH_OUT * PINCH_OUT THEN <<[type |-> "ZoomOut"]>>
                    ELSE IF d2 > PINCH_IN * PINCH_IN THEN <<[type |-> "ZoomIn"]>>
                    ELSE <<>>,
         label |-> IF d2 < PINCH_OUT * PINCH_OUT THEN "Zoom Out"
                   ELSE IF d2 > PINCH_IN * PINCH_IN THEN "Zoom In"
                   ELSE "Idle"]

\* faulty variant of NoHandBranch: the last palm position survives the frame
NoHandBranchKeepsPalm(st) ==
    [wasFist |-> FALSE, lastPalmPos |-> st.lastPalmPos, smoothRot |-> st.smoothRot,
     events |-> <<>>, label |-> NoGesture]

NoHandBranch(st) ==
    [wasFist |-> FALSE, lastPalmPos |-> None, smoothRot |-> st.smoothRot,
     events |-> <<>>, label |-> NoGesture]

\* faulty variant of GestureLogic: the fist branch falls through to the zoom
\* branch instead of ending the chain
GestureLogicFallThrough(st, results, isInPreview) ==
    IF Len(results) > 0
    THEN LET landmarks == results[1]
             palmCenter == landmarks[PALM_CENTER]
         IN  IF detectFist(landmarks)
             THEN LET f == FistBranch(st)
                      z == ZoomBranch(st, landmarks)
                  IN  [f EXCEPT !.events = f.events \o z.events]
             ELSE IF detectOpenPalm(landmarks) THEN OpenPalmBranch(st)
             ELSE IF detectTwoFingers(landmarks)
                  THEN TwoFingersBranch(st, palmCenter, isInPreview)
             ELSE ZoomBranch(st, landmarks)
    ELSE NoHandBranch(st)

\* faulty variant of GestureLogic: the hand read is the last of the list
GestureLogicLastHand(st, results, isInPreview) ==
    IF Len(results) > 0
    THEN LET landmarks == results[Len(results)]
             palmCenter == landmarks[PALM_CENTER]
         IN  IF detectFist(landmarks) THEN FistBranch(st)
             ELSE IF detectOpenPalm(landmarks) THEN OpenPalmBranch(st)
             ELSE IF detectTwoFingers(landmarks)
                  THEN TwoFingersBranch(st, palmCenter, isInPreview)
             ELSE ZoomBranch(st, landmarks)
    ELSE NoHandBranch(st)

GestureLogic(st, results, isInPreview) ==
    IF Len(results) > 0
    THEN LET landmarks == results[1]
             palmCenter == landmarks[PALM_CENTER]
         IN  IF detectFist(landmarks) THEN FistBranch(st)
             ELSE IF detectOpenPalm(landmarks) THEN OpenPalmBranch(st)
             ELSE IF detectTwoFingers(landmarks)
                  THEN TwoFingersBranch(st, palmCenter, isInPreview)
             ELSE ZoomBranch(st, landmarks)
    ELSE NoHandBranch(st)

(***************************************************************************)
(* Camera controller: handleGesture of App.                                *)
(* `app` is the part of the application a gesture can touch:               *)
(* [focusTarget, grabSignal, azimuth, polar, camPos, camQuat, orbitTarget].*)
(* The camera orientation camQuat is carried as the camera's forward       *)
(* vector, of length 100 (one world unit).                                 *)
(* `closedFocus` is the focusTarget the handler closed over (TRUE: set).   *)
(***************************************************************************)
Max(a, b) == IF a > b THEN a ELSE b

Min(a, b) == IF a < b THEN a ELSE b

\* faulty variant of RotateCase: the polar angle is not clamped
RotateCaseUnclamped(app, data) ==
    [app EXCEPT !.azimuth = app.azimuth - data.dx * SENSITIVITY,
                !.polar = app.polar - data.dy * SENSITIVITY]

RotateCase(app, data) ==
    LET newPolar == Max(POLAR_EPS,
                        Min(PI_MICRO - POLAR_EPS, app.polar - data.dy * SENSITIVITY))
    IN  [app EXCEPT !.azimuth = app.azimuth - data.dx * SENSITIVITY,
                    !.polar = newPolar]

\* forward.multiplyScalar(ZOOM_STEP) scales `forward` in place each time it is
\* evaluated: once for nextPos, again for the position, again for the target
\* faulty variant of ZoomInCase: a step that ends exactly at the minimum is
\* taken
ZoomInCaseInclusive(app) ==
    LET forward1 == V3Scale(app.camQuat, ZOOM_STEP)
        forward2 == V3Scale(forward1, ZOOM_STEP)
        forward3 == V3Scale(forward2, ZOOM_STEP)
        nextPos == V3Add(app.camPos, forward1)
    IN  IF V3LenSq(nextPos) >= ZOOM_MIN * ZOOM_MIN
        THEN [app EXCEPT !.camPos = V3Add(app.camPos, forward2),
                         !.orbitTarget = V3Add(app.orbitTarget, forward3)]
        ELSE app

ZoomInCase(app) ==
    LET forward1 == V3Scale(app.camQuat, ZOOM_STEP)
        forward2 == V3Scale(forward1, ZOOM_STEP)
        forward3 == V3Scale(forward2, ZOOM_STEP)
        nextPos == V3Add(app.camPos, forward1)
    IN  IF V3LenSq(nextPos) > ZOOM_MIN * ZOOM_MIN
        THEN [app EXCEPT !.camPos = V3Add(app.camPos, forward2),
                         !.orbitTarget = V3Add(app.orbitTarget, forward3)]
        ELSE app

\* faulty variant of ZoomOutCase: only the camera moves, the target stays
ZoomOutCaseDolly(app) ==
    LET forward1 == V3Scale(app.camQuat, ZOOM_STEP)
        forward2 == V3Scale(forward1, ZOOM_STEP)
        nextPos == V3Sub(app.camPos, forward1)
    IN  IF V3LenSq(nextPos) < ZOOM_MAX * ZOOM_MAX
        THEN [app EXCEPT !.camPos = V3Sub(app.camPos, forward2)]
        ELSE app

ZoomOutCase(app) ==
    LET forward1 == V3Scale(app.camQuat, ZOOM_STEP)
        forward2 == V3Scale(forward1, ZOOM_STEP)
        forward3 == V3Scale(forward2, ZOOM_STEP)
        nextPos == V3Sub(app.camPos, forward1)
    IN  IF V3LenSq(nextPos) < ZOOM_MAX * ZOOM_MAX
        THEN [app EXCEPT !.camPos = V3Sub(app.camPos, forward2),
                         !.orbitTarget = V3Sub(app.orbitTarget, forward3)]
        ELSE app

GrabCase(app) == [app EXCEPT !.grabSignal = app.grabSignal + 1]

\* faulty variant of ReleaseCase: the release also returns the orbit to the
\* front view
ReleaseCaseResetsView(app) ==
    [app EXCEPT !.focusTarget = None, !.azimuth = 0, !.polar = PI_MICRO \div 2]

ReleaseCase(app) == [app EXCEPT !.focusTarget = None]

handleGesture(app, gesture, orbitMounted, closedFocus) ==
    IF ~orbitMounted THEN app
    ELSE IF gesture.type = "Rotate" /\ ~closedFocus THEN RotateCase(app, gesture)
    ELSE IF gesture.type = "ZoomIn" THEN ZoomInCase(app)
    ELSE IF gesture.type = "ZoomOut" THEN ZoomOutCase(app)
    ELSE IF gesture.type = "Grab" THEN GrabCase(app)
    ELSE IF gesture.type = "Release" THEN ReleaseCase(app)
    ELSE app

\* the onGesture calls of one frame, applied in order
RECURSIVE ApplyGestures(_, _, _, _)
ApplyGestures(app, events, orbitMounted, closedFocus) ==
    IF events = <<>> THEN app
    ELSE ApplyGestures(handleGesture(app, Head(events), orbitMounted, closedFocus),
                       Tail(events), orbitMounted, closedFocus)

(***************************************************************************)
(* Scene: the interactable album images.  An image is [position, normal,   *)
(* width, height]; normal is its +z axis in world space, of length 100.    *)
(***************************************************************************)
ImageA == [position |-> <<0, 0, 1000>>, normal |-> <<0, 0, 100>>, width |-> 300, height |-> 200]

ImageB == [position |-> <<1000, 0, 0>>, normal |-> <<100, 0, 0>>, width |-> 300, height |-> 200]

Images == {ImageA, ImageB}

(***************************************************************************)
(* Object selector: the scan of CenterRaycaster.  What the scan sees of    *)
(* an image is [obj, x, y, z, alignment, dist]: its projection to          *)
(* normalised device coordinates and the dot product with the view         *)
(* direction (hundredths), and its distance to the camera.  The projection *)
(* is three.js's; the scan is given its results.                           *)
(***************************************************************************)
Sightings ==
    {[obj |-> ImageA, x |-> 0, y |-> 0, z |-> 50, alignment |-> -90, dist |-> 1000],
     [obj |-> ImageB, x |-> 10, y |-> 0, z |-> 50, alignment |-> -85, dist |-> 500],
     [obj |-> ImageA, x |-> 80, y |-> 0, z |-> 50, alignment |-> -90, dist |-> 1000],
     [obj |-> ImageB, x |-> 0, y |-> 0, z |-> 50, alignment |-> 20, dist |-> 500]}

RECURSIVE SeqsUpTo(_, _)
SeqsUpTo(S, n) ==
    IF n = 0 THEN {<<>>}
    ELSE LET shorter == SeqsUpTo(S, n - 1)
         IN  shorter \cup {Append(q, x) : q \in {r \in shorter : Len(r) = n - 1}, x \in S}

\* the traversals of a scene of at most MaxObjs images
Scans == {q \in SeqsUpTo(Sightings, MaxObjs) :
             \A i, j \in 1..Len(q) : i # j => q[i].obj # q[j].obj}

\* faulty variant of IsCandidate: the four limits are inclusive
IsCandidateInclusive(c) ==
    /\ Abs(c.z) <= 100 /\ Abs(c.x) <= 80 /\ Abs(c.y) <= 80
    /\ c.alignment <= 20

IsCandidate(c) ==
    /\ Abs(c.z) < 100 /\ Abs(c.x) < 80 /\ Abs(c.y) < 80
    /\ c.alignment < 20

\* faulty variant of CompareCandidates: alignment alone, no tie band
CompareCandidatesNoBand(a, b) == a.alignment - b.alignment

\* the comparator of candidates.sort
CompareCandidates(a, b) ==
    IF Abs(a.alignment - b.alignment) < 10 THEN a.dist - b.dist
    ELSE a.alignment - b.alignment

\* insertion of x into a sorted prefix, after every element not above it
RECURSIVE InsertCandidate(_, _)
InsertCandidate(sorted, x) ==
    IF sorted = <<>> THEN <<x>>
    ELSE LET last == sorted[Len(sorted)]
         IN  IF CompareCandidates(x, last) < 0
             THEN Append(InsertCandidate(SubSeq(sorted, 1, Len(sorted) - 1), x), last)
             ELSE Append(sorted, x)

RECURSIVE SortCandidates(_)
SortCandidates(q) ==
    IF q = <<>> THEN <<>>
    ELSE InsertCandidate(SortCandidates(SubSeq(q, 1, Len(q) - 1)), q[Len(q)])

\* faulty variant of SelectObject: with no candidate, the first object of
\* the traversal is taken
SelectObjectFallback(scan) ==
    LET candidates == SelectSeq(scan, IsCandidate)
        sorted == SortCandidates(candidates)
    IN  IF Len(sorted) > 0 THEN sorted[1].obj
        ELSE IF Len(scan) > 0 THEN scan[1].obj
        ELSE None

\* the image handed to onHit, or None
SelectObject(scan) ==
    LET candidates == SelectSeq(scan, IsCandidate)
        sorted == SortCandidates(candidates)
    IN  IF Len(sorted) > 0 THEN sorted[1].obj ELSE None

\* handleObjectHit: every interactable object is an album image
handleObjectHit(obj) ==
    [position |-> obj.position, normal |-> obj.normal,
     width |-> obj.width, height |-> obj.height]

(***************************************************************************)
(* Focus/restore animator: the useFrame callback of CameraRig.             *)
(* `delta` is the frame time in milliseconds; step = 4 * delta / 1000.     *)
(* Interpolated values are rounded down to the model's resolution.         *)
(***************************************************************************)
RECURSIVE ISqrtIn(_, _, _)
ISqrtIn(n, lo, hi) ==
    IF lo >= hi THEN lo
    ELSE LET mid == (lo + hi + 1) \div 2
         IN  IF mid * mid <= n THEN ISqrtIn(n, mid, hi) ELSE ISqrtIn(n, lo, mid - 1)

ISqrt(n) == ISqrtIn(n, 0, 40000)

LerpNum(a, b, delta) == a + ((b - a) * RIG_RATE * delta) \div 1000

\* Vector3.lerp(target, step)
V3Lerp(a, b, delta) ==
    <<LerpNum(a[1], b[1], delta), LerpNum(a[2], b[2], delta), LerpNum(a[3], b[3], delta)>>

\* the forward vector of the orientation Matrix4.lookAt(eye, target, up) gives
LookAt(eye, target) ==
    LET d == V3Sub(target, eye)
        len == ISqrt(V3LenSq(d))
    IN  IF len = 0 THEN <<0, 0, -100>>
        ELSE <<(d[1] * 100) \div len, (d[2] * 100) \div len, (d[3] * 100) \div len>>

\* Quaternion.slerp(q, step), on forward vectors: it returns the first
\* orientation at step 0 and the second at step 1
Slerp(a, b, delta) == V3Lerp(a, b, delta)

\* distance = (height / 2) / tan(fov / 2) * 1.3 with fov = 60 degrees
FocusDistance(height) == (height * 112583) \div 100000

FocusCameraPos(focus) ==
    LET distance == FocusDistance(focus.height)
    IN  V3Add(focus.position,
              <<(focus.normal[1] * distance) \div 100,
                (focus.normal[2] * distance) \div 100,
                (focus.normal[3] * distance) \div 100>>)

\* faulty variant of RigSnapshot: the pose is saved again whenever a focus
\* tick runs, also over a pose that is still held
RigSnapshotAlways(rig) ==
    [rig EXCEPT !.stateRef = [saved |-> TRUE, position |-> rig.camPos,
                              quaternion |-> rig.camQuat,
                              target |-> rig.orbitTarget],
                !.enabled = FALSE]

\* faulty variant of RigSnapshot: the orbit target is copied outside the
\* test of stateRef.saved, on every focus tick
RigSnapshotTargetAlways(rig) ==
    IF ~rig.stateRef.saved
    THEN [rig EXCEPT !.stateRef = [saved |-> TRUE, position |-> rig.camPos,
                                   quaternion |-> rig.camQuat,
                                   target |-> rig.orbitTarget],
                     !.enabled = FALSE]
    ELSE [rig EXCEPT !.stateRef.target = rig.orbitTarget]

\* `rig` is [camPos, camQuat, orbitTarget, enabled, stateRef]
RigSnapshot(rig) ==
    IF ~rig.stateRef.saved
    THEN [rig EXCEPT !.stateRef = [saved |-> TRUE, position |-> rig.camPos,
                                   quaternion |-> rig.camQuat,
                                   target |-> rig.orbitTarget],
                     !.enabled = FALSE]
    ELSE rig

RigFocus(rig, focus, delta) ==
    LET r == RigSnapshot(rig)
        pos == V3Lerp(r.camPos, FocusCameraPos(focus), delta)
        targetQuat == LookAt(pos, focus.position)
    IN  [r EXCEPT !.camPos = pos,
                  !.camQuat = Slerp(r.camQuat, targetQuat, delta),
                  !.orbitTarget = V3Lerp(r.orbitTarget, focus.position, delta)]

\* squared distance of the camera from the saved position
RestoreErrSq(pos, saved) == V3LenSq(V3Sub(pos, saved))

\* faulty variant of RigRestore: the saved pose is never discarded
RigRestoreKeepsPose(rig, delta) ==
    IF rig.stateRef.saved
    THEN LET pos == V3Lerp(rig.camPos, rig.stateRef.position, delta)
             done == RestoreErrSq(pos, rig.stateRef.position) < RESTORE_EPS * RESTORE_EPS
         IN  [rig EXCEPT !.camPos = pos,
                         !.camQuat = Slerp(rig.camQuat, rig.stateRef.quaternion, delta),
                         !.orbitTarget = V3Lerp(rig.orbitTarget, rig.stateRef.target, delta),
                         !.enabled = IF done THEN TRUE ELSE rig.enabled]
    ELSE rig

\* faulty variant of RigRestore: the controls stay disabled at completion
RigRestoreLeavesDisabled(rig, delta) ==
    IF rig.stateRef.saved
    THEN LET pos == V3Lerp(rig.camPos, rig.stateRef.position, delta)
             done == RestoreErrSq(pos, rig.stateRef.position) < RESTORE_EPS * RESTORE_EPS
         IN  [rig EXCEPT !.camPos = pos,
                         !.camQuat = Slerp(rig.camQuat, rig.stateRef.quaternion, delta),
                         !.orbitTarget = V3Lerp(rig.orbitTarget, rig.stateRef.target, delta),
                         !.stateRef.saved = IF done THEN FALSE ELSE TRUE]
    ELSE rig

\* faulty variant of RigRestore: the test of stateRef.saved is missing
RigRestoreUnguarded(rig, delta) ==
    LET pos == V3Lerp(rig.camPos, rig.stateRef.position, delta)
        done == RestoreErrSq(pos, rig.stateRef.position) < RESTORE_EPS * RESTORE_EPS
    IN  [rig EXCEPT !.camPos = pos,
                    !.camQuat = Slerp(rig.camQuat, rig.stateRef.quaternion, delta),
                    !.orbitTarget = V3Lerp(rig.orbitTarget, rig.stateRef.target, delta),
                    !.stateRef.saved = IF done THEN FALSE ELSE rig.stateRef.saved,
                    !.enabled = IF done THEN TRUE ELSE rig.enabled]

RigRestore(rig, delta) ==
    IF rig.stateRef.saved
    THEN LET pos == V3Lerp(rig.camPos, rig.stateRef.position, delta)
             done == RestoreErrSq(pos, rig.stateRef.position) < RESTORE_EPS * RESTORE_EPS
         IN  [rig EXCEPT !.camPos = pos,
                         !.camQuat = Slerp(rig.camQuat, rig.stateRef.quaternion, delta),
                         !.orbitTarget = V3Lerp(rig.orbitTarget, rig.stateRef.target, delta),
                         !.stateRef.saved = IF done THEN FALSE ELSE TRUE,
                         !.enabled = IF done THEN TRUE ELSE rig.enabled]
    ELSE rig

CameraRigFrame(rig, focus, delta) ==
    IF focus # None THEN RigFocus(rig, focus, delta) ELSE RigRestore(rig, delta)

(***************************************************************************)
(* State.                                                                  *)
(***************************************************************************)
VARIABLES
    \* GestureOverlay
    isCameraActive,   \* useState isCameraActive
    isLoading,        \* useState isLoading: startCamera is awaiting
    loopRunning,      \* requestRef holds a pending predictWebcam callback
    isInPreview,      \* the isInPreview prop the running predictWebcam closed over
    closedFocus,      \* focusTarget # null in the handleGesture it closed over
    session,          \* startCamera calls in flight, gestureService.isInitializing, the video element, the loops (see NoSession)
    activeGesture,    \* useState activeGesture (label or NoGesture)
    lastPalmPos,      \* useRef lastPalmPos (None or <<x, y>>)
    wasFist,          \* useRef wasFist
    smoothRot,        \* useRef smoothRot
    \* gestureService and the video element
    handLandmarker,   \* gestureService.handLandmarker # null
    lastVideoTime,    \* gestureService.lastVideoTime
    videoTime,        \* video.currentTime
    \* App
    focusTarget,      \* useState focusTarget (None or a FocusTarget)
    grabSignal,       \* useState grabSignal
    orbitMounted,     \* orbitRef.current # null
    \* camera and OrbitControls
    azimuth, polar, camPos, camQuat, orbitTarget, controlsEnabled,
    \* CameraRig and CenterRaycaster
    stateRef, lastTriggerRef,
    \* the animation-frame clock
    tickDue,          \* a gesture was delivered since the render loop's last callback
    frameTime,        \* the time between two render ticks, in milliseconds
    ticks,            \* render ticks counted so far
    layers,           \* useState layers, each with the frames its animation has advanced
    selectedLayerId,  \* useState selectedLayerId (None or a layer id)
    uuids,            \* uuidv4() calls made so far: the n-th call returns n
    \* history
    scanLog,          \* [count, scan]: how many scans CenterRaycaster ran, and the last traversal
    rigLog,           \* what CameraRig has seen of the current focus (see NoRigLog)
    detectLog,        \* what the last predictWebcam callback did with detect() (see NoDetectLog)
    \* the last frame handed to the detector
    frame,            \* [status, primary]: detection failed, no hand, or the primary hand
    emitted,          \* the onGesture calls made for it, in order
    inFistRun,        \* the last processed frame showed a fist
    grabsInRun,       \* Grab events of the current run of fist frames
    \* classifier probe
    probe, features

overlayVars == <<isCameraActive, isLoading, loopRunning, isInPreview, closedFocus, session>>
trackVars == <<activeGesture, lastPalmPos, wasFist, smoothRot>>
videoVars == <<handLandmarker, lastVideoTime, videoTime>>
appVars == <<focusTarget, grabSignal, azimuth, polar, camPos, camQuat, orbitTarget>>
rigVars == <<controlsEnabled, stateRef, lastTriggerRef>>
frameVars == <<frame, emitted, inFistRun, grabsInRun>>

historyVars == <<scanLog, rigLog, detectLog>>

\* both loops are driven by requestAnimationFrame: one callback of each per
\* animation frame
loopVars == <<tickDue, frameTime, ticks, layers, selectedLayerId, uuids>>
probeVars == <<probe, features>>

vars == <<overlayVars, trackVars, videoVars, appVars, orbitMounted, rigVars, frameVars,
         historyVars, loopVars, probeVars>>

\* frame times of the render loop, in milliseconds
Deltas == {250}

\* session before the first startCamera:
\*   awaiting  a startCamera call is awaiting initialize() or getUserMedia()
\*   attached  video.srcObject is a stream whose onloadeddata handler has not
\*             yet run to the end of play()
\*   playing   the video has a size and is not paused
\*   chains    predictWebcam callbacks registered with requestAnimationFrame
\*   stopped   stopCamera has run and startCamera has not been called since
\* the callers of gestureService.initialize(): startCamera calls
Callers == 1..MaxCallers

\* a startCamera call that has not been made; `at` is where the call stands,
\* `looping` whether its predictWebcam() registered a callback
IdleCall == [at |-> "idle", looping |-> FALSE]

NoSession == [awaiting |-> FALSE, attached |-> FALSE, playing |-> FALSE,
              chains |-> 0, stopped |-> FALSE,
              isInitializing |-> FALSE, calls |-> [c \in Callers |-> IdleCall]]

\* the camera pose CameraRig reads and writes
CameraPose == [camPos |-> camPos, camQuat |-> camQuat, orbitTarget |-> orbitTarget]

\* rigLog before any focus:
\*   entered    FocusTarget went from none to set and no tick has run since
\*   idle       no saved pose was held when it did
\*   pose       the camera pose when it did
\*   roundTrip  that focus was cleared again before any tick
\*   restoring  a tick has run with FocusTarget set, and none since has found
\*              the camera within RESTORE_EPS of the saved position
\*   atTick     no click since the last tick
NoRigLog == [entered |-> FALSE, idle |-> TRUE, pose |-> None, roundTrip |-> FALSE,
             restoring |-> FALSE, atTick |-> TRUE]

\* the images the pointer can click and the scene traversals a scan can see
ClickImages == {ImageA}

SceneScans == {q \in Scans : \A i \in 1..Len(q) : q[i].obj \in ClickImages}

NoFrame == [status |-> "none", primary |-> None]

\* a layer of the scene:
\*   type     LayerType
\*   visible  data.visible
\*   layout   data.layout of an album ("none" for the other types)
\*   ready    the layer's mesh or points object is mounted and, for image
\*            and text layers, its geometry has been built
\*   frames   how many times its per-frame animation has run
Layer(type, visible, layout, ready) ==
    [type |-> type, visible |-> visible, layout |-> layout, ready |-> ready, frames |-> 0]

\* lines 426-430: the base layer has the first uuid and is selected
PanelAtStart == selectedLayerId = 1 /\ uuids = 1

\* the base particle layer App starts with and an album the user has added
SceneLayers == <<Layer("particle", TRUE, "none", TRUE), Layer("album", TRUE, "spiral", TRUE)>>

\* detectLog before the first callback:
\*   tick     flips on every callback of predictWebcam that reaches detect()
\*   invoked  that callback called detectForVideo
\*   threw    and detectForVideo threw
\*   time     the video time handed to the latest detectForVideo call
\*   repeat   the latest detectForVideo call got the same video time as the
\*            call before it
NoDetectLog == [tick |-> FALSE, invoked |-> FALSE, threw |-> FALSE, time |-> -1,
                repeat |-> FALSE]

Init ==
    /\ isCameraActive = FALSE /\ isLoading = FALSE /\ session = NoSession
    /\ loopRunning = FALSE /\ isInPreview = FALSE /\ closedFocus = FALSE
    /\ activeGesture = NoGesture /\ lastPalmPos = None /\ wasFist = FALSE
    /\ smoothRot = <<0, 0>>
    /\ handLandmarker = FALSE /\ lastVideoTime = -1 /\ videoTime = 0
    /\ focusTarget = None /\ grabSignal = 0 /\ orbitMounted = FALSE
    /\ azimuth = 0 /\ polar = PI_MICRO \div 2
    /\ camPos = <<0, 0, 3000>> /\ camQuat = <<0, 0, -100>> /\ orbitTarget = <<0, 0, 0>>
    /\ controlsEnabled = TRUE
    /\ stateRef = [saved |-> FALSE, position |-> <<0, 0, 0>>,
                   quaternion |-> <<0, 0, -100>>, target |-> <<0, 0, 0>>]
    /\ lastTriggerRef = 0
    /\ frame = NoFrame /\ emitted = <<>> /\ inFistRun = FALSE /\ grabsInRun = 0
    /\ scanLog = [count |-> 0, scan |-> None] /\ rigLog = NoRigLog
    /\ detectLog = NoDetectLog
    /\ tickDue = FALSE /\ frameTime \in Deltas /\ ticks = 0
    /\ layers = SceneLayers
    /\ PanelAtStart
    /\ probe = FistHand /\ features = None

(***************************************************************************)
(* GestureOverlay: startCamera, stopCamera.                                *)
(***************************************************************************)
\* the button of line 288: startCamera begins; the predictWebcam and the
\* onGesture of this render are the ones the loop will run
StartCamera ==
    /\ ~isCameraActive /\ ~isLoading
    /\ isLoading' = TRUE
    /\ isInPreview' = (focusTarget # None)
    /\ closedFocus' = (focusTarget # None)
    /\ UNCHANGED <<isCameraActive, loopRunning, session>>
    /\ UNCHANGED <<trackVars, videoVars, appVars, orbitMounted, rigVars, frameVars, historyVars, loopVars, probeVars>>

\* initialize() or getUserMedia() threw
StartCameraFailed ==
    /\ isLoading
    /\ isLoading' = FALSE
    /\ isCameraActive' = FALSE
    /\ UNCHANGED <<loopRunning, isInPreview, closedFocus, session>>
    /\ UNCHANGED <<trackVars, videoVars, appVars, orbitMounted, rigVars, frameVars, historyVars, loopVars, probeVars>>

\* initialize() and getUserMedia() resolved, onloadeddata fired and play()
\* resolved: the loop starts
VideoPlaying ==
    /\ isLoading
    /\ isLoading' = FALSE
    /\ handLandmarker' = TRUE
    /\ isCameraActive' = TRUE
    /\ loopRunning' = TRUE
    /\ UNCHANGED <<isInPreview, closedFocus, session>>
    /\ UNCHANGED <<lastVideoTime, videoTime>>
    /\ UNCHANGED <<trackVars, appVars, orbitMounted, rigVars, frameVars, historyVars, loopVars, probeVars>>

StopCamera ==
    /\ isCameraActive
    /\ loopRunning' = FALSE
    /\ isCameraActive' = FALSE
    /\ activeGesture' = NoGesture
    /\ UNCHANGED <<isLoading, isInPreview, closedFocus, session>>
    /\ UNCHANGED <<lastPalmPos, wasFist, smoothRot>>
    /\ UNCHANGED <<videoVars, appVars, orbitMounted, rigVars, frameVars, historyVars, loopVars, probeVars>>

\* the capture device delivers a new video frame
VideoAdvance ==
    /\ isCameraActive
    /\ videoTime < MaxVideoTime
    /\ videoTime' = videoTime + 1
    /\ UNCHANGED <<handLandmarker, lastVideoTime>>
    /\ UNCHANGED <<overlayVars, trackVars, appVars, orbitMounted, rigVars, frameVars, historyVars, loopVars, probeVars>>

(***************************************************************************)
(* GestureOverlay: predictWebcam, one call of the animation-frame loop.    *)
(***************************************************************************)
CountGrabs(events) == Cardinality({i \in 1..Len(events) : events[i].type = "Grab"})

\* line 128: the video has no size yet or is paused; the call returns
PredictNotReady ==
    /\ loopRunning
    /\ UNCHANGED vars

\* detect(): the video time has not advanced, detect returns null and the
\* gesture logic is not entered
PredictSkipped ==
    /\ loopRunning
    /\ videoTime = lastVideoTime
    /\ UNCHANGED vars

\* detect(): detectForVideo throws, the catch returns null and the gesture
\* logic is not entered
PredictDetectThrows ==
    /\ loopRunning
    /\ videoTime # lastVideoTime
    /\ lastVideoTime' = videoTime
    /\ frame' = [status |-> "failed", primary |-> None]
    /\ emitted' = <<>>
    /\ UNCHANGED <<inFistRun, grabsInRun>>
    /\ UNCHANGED <<handLandmarker, videoTime>>
    /\ UNCHANGED <<overlayVars, trackVars, appVars, orbitMounted, rigVars, historyVars, loopVars, probeVars>>

\* lines 141-230: the gesture logic runs on the results detect() returned
ProcessUpdate(results) ==
    LET st == [wasFist |-> wasFist, lastPalmPos |-> lastPalmPos,
               smoothRot |-> smoothRot, label |-> activeGesture]
        g == GestureLogic(st, results, isInPreview)
        app == [focusTarget |-> focusTarget, grabSignal |-> grabSignal,
                azimuth |-> azimuth, polar |-> polar, camPos |-> camPos,
                camQuat |-> camQuat, orbitTarget |-> orbitTarget]
        after == ApplyGestures(app, g.events, orbitMounted, closedFocus)
        fist == Len(results) > 0 /\ detectFist(results[1])
    IN  /\ loopRunning
        /\ wasFist' = g.wasFist
        /\ lastPalmPos' = g.lastPalmPos
        /\ smoothRot' = g.smoothRot
        /\ activeGesture' = g.label
        /\ focusTarget' = after.focusTarget
        /\ grabSignal' = after.grabSignal
        /\ azimuth' = after.azimuth
        /\ polar' = after.polar
        /\ camPos' = after.camPos
        /\ camQuat' = after.camQuat
        /\ orbitTarget' = after.orbitTarget
        /\ frame' = [status |-> IF Len(results) > 0 THEN "hand" ELSE "nohand",
                     primary |-> IF Len(results) > 0 THEN results[1] ELSE None]
        /\ emitted' = g.events
        /\ inFistRun' = fist
        /\ grabsInRun' = IF fist
                         THEN (IF inFistRun THEN grabsInRun ELSE 0) + CountGrabs(g.events)
                         ELSE 0
        /\ UNCHANGED <<handLandmarker, videoTime>>
        /\ UNCHANGED <<overlayVars, orbitMounted, rigVars, loopVars>>

\* detect() returns results; the gesture logic runs on them
PredictProcess(results) ==
    /\ videoTime # lastVideoTime
    /\ lastVideoTime' = videoTime
    /\ ProcessUpdate(results)
    /\ UNCHANGED <<historyVars, probeVars>>

PredictWebcam ==
    \/ PredictNotReady
    \/ PredictSkipped
    \/ PredictDetectThrows
    \/ \E results \in DetectResults : PredictProcess(results)

(***************************************************************************)
(* App: the canvas content mounts, mouse clicks, the render loop.          *)
(***************************************************************************)
\* the Suspense content (OrbitControls, the layers) mounts: orbitRef is set
SceneMounted ==
    /\ ~orbitMounted
    /\ orbitMounted' = TRUE
    /\ UNCHANGED <<overlayVars, trackVars, videoVars, appVars, rigVars, frameVars, historyVars, loopVars, probeVars>>

\* onImageClick of an album image
ImageClickUpdate(img) ==
    /\ orbitMounted
    /\ focusTarget' = handleObjectHit(img)
    /\ UNCHANGED <<grabSignal, azimuth, polar, camPos, camQuat, orbitTarget>>
    /\ UNCHANGED <<overlayVars, trackVars, videoVars, orbitMounted, rigVars, frameVars, probeVars>>

ImageClick(img) ==
    /\ ImageClickUpdate(img)
    /\ UNCHANGED <<historyVars, loopVars>>

\* the exit-preview button of line 641
ExitPreviewUpdate ==
    /\ focusTarget # None
    /\ focusTarget' = None
    /\ UNCHANGED <<grabSignal, azimuth, polar, camPos, camQuat, orbitTarget>>
    /\ UNCHANGED <<overlayVars, trackVars, videoVars, orbitMounted, rigVars, frameVars, probeVars>>

ExitPreviewClick ==
    /\ ExitPreviewUpdate
    /\ UNCHANGED <<historyVars, loopVars>>

\* faulty variant of ScanDue: no early return, the scan runs on every tick
ScanDueAlways(trigger, last) == TRUE

\* line 364: CenterRaycaster's callback returns at once unless the trigger
\* differs from the one it last saw
ScanDue(trigger, last) == trigger # last

\* one frame of the render loop: CameraRig's callback, then CenterRaycaster's
RenderUpdate(delta, scan) ==
    LET rig == [camPos |-> camPos, camQuat |-> camQuat, orbitTarget |-> orbitTarget,
                enabled |-> controlsEnabled, stateRef |-> stateRef]
        r == CameraRigFrame(rig, focusTarget, delta)
        hit == SelectObject(scan)
    IN  /\ orbitMounted
        /\ camPos' = r.camPos
        /\ camQuat' = r.camQuat
        /\ orbitTarget' = r.orbitTarget
        /\ controlsEnabled' = r.enabled
        /\ stateRef' = r.stateRef
        /\ lastTriggerRef' = grabSignal
        /\ focusTarget' = IF ScanDue(grabSignal, lastTriggerRef) /\ hit # None
                          THEN handleObjectHit(hit)
                          ELSE focusTarget
        /\ UNCHANGED <<grabSignal, azimuth, polar>>
        /\ UNCHANGED <<overlayVars, trackVars, videoVars, orbitMounted, frameVars, probeVars>>

RenderFrame(delta, scan) ==
    /\ RenderUpdate(delta, scan)
    /\ UNCHANGED <<historyVars, loopVars>>

RenderTick ==
    \E delta \in Deltas :
        \/ grabSignal = lastTriggerRef /\ RenderFrame(delta, <<>>)
        \/ grabSignal # lastTriggerRef /\ \E scan \in SceneScans : RenderFrame(delta, scan)

Next ==
    \/ StartCamera
    \/ StartCameraFailed
    \/ VideoPlaying
    \/ StopCamera
    \/ VideoAdvance
    \/ PredictWebcam
    \/ SceneMounted
    \/ \E img \in ClickImages : ImageClick(img)
    \/ ExitPreviewClick
    \/ RenderTick

Spec == Init /\ [][Next]_vars

(***************************************************************************)
(* Properties.                                                             *)
(***************************************************************************)
HasEvent(events, t) == \E i \in 1..Len(events) : events[i].type = t

\* a step in which the gesture logic ran on a fresh frame
ProcessedStep == lastVideoTime' # lastVideoTime /\ frame'.status \in {"hand", "nohand"}

TrackingNow ==
    [wasFist |-> wasFist, lastPalmPos |-> lastPalmPos,
     smoothRot |-> smoothRot, label |-> activeGesture]

AppNow ==
    [focusTarget |-> focusTarget, grabSignal |-> grabSignal,
     azimuth |-> azimuth, polar |-> polar, camPos |-> camPos,
     camQuat |-> camQuat, orbitTarget |-> orbitTarget]

FistFrame == frame.status = "hand" /\ detectFist(frame.primary)

OpenPalmFrame ==
    frame.status = "hand" /\ ~detectFist(frame.primary) /\ detectOpenPalm(frame.primary)

ZoomFrame ==
    /\ frame.status = "hand"
    /\ ~detectFist(frame.primary)
    /\ ~detectOpenPalm(frame.primary)
    /\ ~detectTwoFingers(frame.primary)

\* C1: a processed frame emits Grab exactly when its primary hand is a fist
\* and wasFist was false before the frame, and then exactly one Grab; a
\* maximal run of consecutive processed fist frames carries exactly one Grab;
\* a Release is emitted only by an open-palm frame.
C1_GrabOnRisingEdge ==
    /\ [][ProcessedStep =>
            (HasEvent(emitted', "Grab")
               <=> (frame'.status = "hand" /\ detectFist(frame'.primary) /\ ~wasFist))]_vars
    /\ [][ProcessedStep /\ HasEvent(emitted', "Grab") => CountGrabs(emitted') = 1]_vars
    /\ [](inFistRun => grabsInRun = 1)
    /\ [](HasEvent(emitted, "Release") => OpenPalmFrame)

\* C1 witness: the second or later frame of a fist run, held without a Grab
C1_Witness ==
    /\ FistFrame
    /\ inFistRun
    /\ grabsInRun = 1
    /\ emitted = <<>>
    /\ activeGesture = "Hold"

\* C2: a processed frame never emits Rotate while focusTarget is non-null at
\* the moment of the frame.
C2_NoRotateWhileFocused ==
    [][ProcessedStep /\ focusTarget # None => ~HasEvent(emitted', "Rotate")]_vars

\* C3: a Rotate delivered to handleGesture while focusTarget is set leaves
\* the orbit's azimuth and polar angle as they were.
C3_RotateIgnoredWhileFocused ==
    [][ProcessedStep /\ focusTarget # None /\ HasEvent(emitted', "Rotate")
         => azimuth' = azimuth /\ polar' = polar]_vars

\* C4: a processed frame makes at most one onGesture call, whatever the hand
\* input, the tracking state and the preview flag.
C4_AtMostOneEvent ==
    /\ Len(emitted) <= 1
    /\ \A results \in DetectResults, preview \in BOOLEAN :
          Len(GestureLogic(TrackingNow, results, preview).events) <= 1

\* C4 witness: a frame that made exactly one call, a Rotate
C4_Witness ==
    /\ frame.status = "hand"
    /\ Len(emitted) = 1
    /\ emitted[1].type = "Rotate"

\* C5: every processed open-palm frame emits exactly a Release, whatever
\* wasFist, the preview flag and the previous frame's label were.
C5_ReleaseEveryOpenPalmFrame ==
    /\ OpenPalmFrame => emitted = <<[type |-> "Release"]>>
    /\ \A wf \in BOOLEAN, preview \in BOOLEAN :
          GestureLogic([TrackingNow EXCEPT !.wasFist = wf], <<OpenHand>>, preview).events
             = <<[type |-> "Release"]>>

\* C5 witness: an open-palm frame released although the overlay holds the
\* preview flag
C5_Witness ==
    /\ OpenPalmFrame
    /\ emitted = <<[type |-> "Release"]>>
    /\ isInPreview

\* C6: a Release leaves focusTarget null and azimuth, polar, camera position
\* and orbit target untouched; with focusTarget already null it changes
\* nothing; applying it twice gives what applying it once gives.
C6_ReleaseClearsFocusOnly ==
    /\ [][ProcessedStep /\ HasEvent(emitted', "Release")
            => /\ focusTarget' = None
               /\ UNCHANGED <<azimuth, polar, camPos, orbitTarget>>]_vars
    /\ [](LET release == [type |-> "Release"]
              once == handleGesture(AppNow, release, orbitMounted, closedFocus)
              twice == handleGesture(once, release, orbitMounted, closedFocus)
          IN  /\ twice = once
              /\ focusTarget = None => once = AppNow
              /\ orbitMounted => once.focusTarget = None
              /\ once.azimuth = azimuth /\ once.polar = polar
              /\ once.camPos = camPos /\ once.orbitTarget = orbitTarget)

\* C6 witness: a Release has cleared the focus while the rig still holds the
\* pose it saved for the preview, the orbit having been turned before
C6_Witness ==
    /\ OpenPalmFrame
    /\ emitted = <<[type |-> "Release"]>>
    /\ focusTarget = None
    /\ stateRef.saved
    /\ azimuth # 0

\* C7 as stated: a processed frame without a hand leaves wasFist false,
\* lastPalmPos none and smoothRot (0,0), emits nothing and sets the label to
\* none.
C7_NoHandResetsAll ==
    frame.status = "nohand" =>
        /\ wasFist = FALSE
        /\ lastPalmPos = None
        /\ smoothRot = <<0, 0>>
        /\ emitted = <<>>
        /\ activeGesture = NoGesture

\* C7: a processed frame without a hand leaves wasFist false and lastPalmPos
\* none, emits nothing and sets the label to none; smoothRot keeps the value
\* it had before the frame.
C7_NoHandResetsHysteresis ==
    /\ [](frame.status = "nohand" =>
             /\ wasFist = FALSE
             /\ lastPalmPos = None
             /\ emitted = <<>>
             /\ activeGesture = NoGesture)
    /\ [][ProcessedStep /\ frame'.status = "nohand" => smoothRot' = smoothRot]_vars

\* C7 witness: a frame without a hand, after a rotation left smoothRot
\* different from (0,0)
C7_Witness ==
    /\ frame.status = "nohand"
    /\ smoothRot # <<0, 0>>
    /\ lastPalmPos = None

\* C8: with focusTarget null, a processed two-finger frame whose palm centre
\* is less than 0.005 from lastPalmPos on both axes emits no Rotate and
\* leaves lastPalmPos at the frame's palm centre.
C8_DeadzoneUpdatesPalm ==
    [][(/\ ProcessedStep
        /\ focusTarget = None
        /\ frame'.status = "hand"
        /\ ~detectFist(frame'.primary)
        /\ ~detectOpenPalm(frame'.primary)
        /\ detectTwoFingers(frame'.primary)
        /\ lastPalmPos # None
        /\ Abs(frame'.primary[PALM_CENTER][1] - lastPalmPos[1]) < 5
        /\ Abs(frame'.primary[PALM_CENTER][2] - lastPalmPos[2]) < 5)
         => /\ ~HasEvent(emitted', "Rotate")
            /\ lastPalmPos' = frame'.primary[PALM_CENTER]]_vars

\* C9: a frame in no named pose emits ZoomOut when thumb tip and index tip
\* are less than 0.05 apart, ZoomIn when more than 0.12 apart, and nothing
\* at the two thresholds or between them.
C9_PinchThresholds ==
    ZoomFrame =>
        LET d2 == Hypot2(frame.primary[THUMB_TIP], frame.primary[INDEX_TIP])
        IN  /\ d2 < 50 * 50 => emitted = <<[type |-> "ZoomOut"]>>
            /\ d2 > 120 * 120 => emitted = <<[type |-> "ZoomIn"]>>
            /\ (d2 >= 50 * 50 /\ d2 <= 120 * 120) => emitted = <<>>

\* C9 witness: a pinch of exactly 0.05, which emitted nothing
C9_Witness ==
    /\ ZoomFrame
    /\ Hypot2(frame.primary[THUMB_TIP], frame.primary[INDEX_TIP]) = 50 * 50
    /\ emitted = <<>>
    /\ activeGesture = "Idle"

(***************************************************************************)
(* The classifier on its own: the three detectors applied to one hand, as  *)
(* lines 154-156 of predictWebcam apply them.                              *)
(***************************************************************************)
PoseFeatures(landmarks) ==
    [isFist |-> detectFist(landmarks),
     isOpenPalm |-> detectOpenPalm(landmarks),
     isTwoFingerPoint |-> detectTwoFingers(landmarks),
     pinchDistSq |-> pinchDistSq(landmarks)]

\* hands whose pips and tips each take several distances from the wrist,
\* ties between a tip and its pip included
ProbePips == {<<500, 700>>, <<680, 740>>}

ProbeTips == {<<560, 580>>, <<620, 660>>, <<800, 500>>, <<740, 820>>}

ProbeHands ==
    {(WRIST :> <<500, 500>>) @@ (THUMB_TIP :> <<400, 600>>) @@ (PALM_CENTER :> <<500, 600>>)
       @@ (INDEX_PIP :> p[1]) @@ (MIDDLE_PIP :> p[2])
       @@ (RING_PIP :> p[3]) @@ (PINKY_PIP :> p[4])
       @@ (INDEX_TIP :> t[1]) @@ (MIDDLE_TIP :> t[2])
       @@ (RING_TIP :> t[3]) @@ (PINKY_TIP :> t[4]) :
     p \in ProbePips \X ProbePips \X ProbePips \X ProbePips,
     t \in ProbeTips \X ProbeTips \X ProbeTips \X ProbeTips}

InitClassify ==
    /\ isCameraActive = FALSE /\ isLoading = FALSE /\ session = NoSession
    /\ loopRunning = FALSE /\ isInPreview = FALSE /\ closedFocus = FALSE
    /\ activeGesture = NoGesture /\ lastPalmPos = None /\ wasFist = FALSE
    /\ smoothRot = <<0, 0>>
    /\ handLandmarker = FALSE /\ lastVideoTime = -1 /\ videoTime = 0
    /\ focusTarget = None /\ grabSignal = 0 /\ orbitMounted = FALSE
    /\ azimuth = 0 /\ polar = PI_MICRO \div 2
    /\ camPos = <<0, 0, 3000>> /\ camQuat = <<0, 0, -100>> /\ orbitTarget = <<0, 0, 0>>
    /\ controlsEnabled = TRUE
    /\ stateRef = [saved |-> FALSE, position |-> <<0, 0, 0>>,
                   quaternion |-> <<0, 0, -100>>, target |-> <<0, 0, 0>>]
    /\ lastTriggerRef = 0
    /\ frame = NoFrame /\ emitted = <<>> /\ inFistRun = FALSE /\ grabsInRun = 0
    /\ scanLog = [count |-> 0, scan |-> None] /\ rigLog = NoRigLog
    /\ detectLog = NoDetectLog
    /\ tickDue = FALSE /\ frameTime \in Deltas /\ ticks = 0
    /\ layers = SceneLayers
    /\ PanelAtStart
    /\ probe \in ProbeHands \cup Hands
    /\ features = None

Classify ==
    /\ features = None
    /\ features' = PoseFeatures(probe)
    /\ UNCHANGED probe
    /\ UNCHANGED <<overlayVars, trackVars, videoVars, appVars, orbitMounted, rigVars, frameVars, historyVars, loopVars>>

NextClassify == Classify

SpecClassify == InitClassify /\ [][NextClassify]_vars

\* the four non-thumb fingers of a hand all folded: each tip strictly nearer
\* to the wrist than its pip
AllFourFolded(h) ==
    /\ Hypot2(h[INDEX_TIP], h[WRIST]) < Hypot2(h[INDEX_PIP], h[WRIST])
    /\ Hypot2(h[MIDDLE_TIP], h[WRIST]) < Hypot2(h[MIDDLE_PIP], h[WRIST])
    /\ Hypot2(h[RING_TIP], h[WRIST]) < Hypot2(h[RING_PIP], h[WRIST])
    /\ Hypot2(h[PINKY_TIP], h[WRIST]) < Hypot2(h[PINKY_PIP], h[WRIST])

\* C10: for every hand at most one of isFist, isOpenPalm, isTwoFingerPoint
\* is true, and a hand with all four non-thumb fingers folded is a fist and
\* not an open palm.
C10_PosesExclusive ==
    features # None =>
        /\ ~(features.isFist /\ features.isOpenPalm)
        /\ ~(features.isFist /\ features.isTwoFingerPoint)
        /\ ~(features.isOpenPalm /\ features.isTwoFingerPoint)
        /\ AllFourFolded(probe) => (features.isFist /\ ~features.isOpenPalm)

\* C10 witness: a classified two-finger point, which is neither of the others
C10_Witness ==
    /\ features # None
    /\ features.isTwoFingerPoint
    /\ ~features.isFist
    /\ ~features.isOpenPalm

(***************************************************************************)
(* The classifier on a hand of fewer than 21 landmarks.  A landmark the    *)
(* list does not hold reads as undefined, and reading .x of undefined      *)
(* raises a TypeError.                                                     *)
(***************************************************************************)
\* every variable but frameTime, probe and features, as after construction
InitBase ==
    /\ isCameraActive = FALSE /\ isLoading = FALSE /\ session = NoSession
    /\ loopRunning = FALSE /\ isInPreview = FALSE /\ closedFocus = FALSE
    /\ activeGesture = NoGesture /\ lastPalmPos = None /\ wasFist = FALSE
    /\ smoothRot = <<0, 0>>
    /\ handLandmarker = FALSE /\ lastVideoTime = -1 /\ videoTime = 0
    /\ focusTarget = None /\ grabSignal = 0 /\ orbitMounted = FALSE
    /\ azimuth = 0 /\ polar = PI_MICRO \div 2
    /\ camPos = <<0, 0, 3000>> /\ camQuat = <<0, 0, -100>> /\ orbitTarget = <<0, 0, 0>>
    /\ controlsEnabled = TRUE
    /\ stateRef = [saved |-> FALSE, position |-> <<0, 0, 0>>,
                   quaternion |-> <<0, 0, -100>>, target |-> <<0, 0, 0>>]
    /\ lastTriggerRef = 0
    /\ frame = NoFrame /\ emitted = <<>> /\ inFistRun = FALSE /\ grabsInRun = 0
    /\ scanLog = [count |-> 0, scan |-> None] /\ rigLog = NoRigLog
    /\ detectLog = NoDetectLog
    /\ tickDue = FALSE /\ ticks = 0

\* the landmark counts of the malformed hands: the first n landmarks only
LandmarkCounts == 0..20

Truncate(h, n) == [i \in {j \in DOMAIN h : j < n} |-> h[i]]

MalformedHands == {Truncate(h, n) : h \in Hands, n \in LandmarkCounts}

\* Math.hypot(tip.x - wrist.x, ...) < Math.hypot(pip.x - wrist.x, ...) can be
\* evaluated: tip, pip and wrist are all there
ReadsOk(landmarks, tipIdx, pipIdx) == {WRIST, tipIdx, pipIdx} \subseteq DOMAIN landmarks

\* detectFist: the && chain stops at the first finger that is not folded
detectFistRaises(landmarks) ==
    \/ ~ReadsOk(landmarks, INDEX_TIP, INDEX_PIP)
    \/ /\ isFolded(landmarks, INDEX_TIP, INDEX_PIP)
       /\ \/ ~ReadsOk(landmarks, MIDDLE_TIP, MIDDLE_PIP)
          \/ /\ isFolded(landmarks, MIDDLE_TIP, MIDDLE_PIP)
             /\ \/ ~ReadsOk(landmarks, RING_TIP, RING_PIP)
                \/ /\ isFolded(landmarks, RING_TIP, RING_PIP)
                   /\ ~ReadsOk(landmarks, PINKY_TIP, PINKY_PIP)

\* detectOpenPalm: the && chain stops at the first finger that is not extended
detectOpenPalmRaises(landmarks) ==
    \/ ~ReadsOk(landmarks, INDEX_TIP, INDEX_PIP)
    \/ /\ isExtended(landmarks, INDEX_TIP, INDEX_PIP)
       /\ \/ ~ReadsOk(landmarks, MIDDLE_TIP, MIDDLE_PIP)
          \/ /\ isExtended(landmarks, MIDDLE_TIP, MIDDLE_PIP)
             /\ \/ ~ReadsOk(landmarks, RING_TIP, RING_PIP)
                \/ /\ isExtended(landmarks, RING_TIP, RING_PIP)
                   /\ ~ReadsOk(landmarks, PINKY_TIP, PINKY_PIP)

\* detectTwoFingers: the four tests are evaluated before they are combined
detectTwoFingersRaises(landmarks) ==
    \/ ~ReadsOk(landmarks, INDEX_TIP, INDEX_PIP)
    \/ ~ReadsOk(landmarks, MIDDLE_TIP, MIDDLE_PIP)
    \/ ~ReadsOk(landmarks, RING_TIP, RING_PIP)
    \/ ~ReadsOk(landmarks, PINKY_TIP, PINKY_PIP)

Raised == [raised |-> TRUE]

\* lines 154-156, and the pinch distance of lines 208-210 when no pose is
\* recognised: what the frame computes of the hand, or the TypeError
ClassifyOutcome(landmarks) ==
    IF detectFistRaises(landmarks) THEN Raised
    ELSE IF detectOpenPalmRaises(landmarks) THEN Raised
    ELSE IF detectTwoFingersRaises(landmarks) THEN Raised
    ELSE LET named == \/ detectFist(landmarks)
                      \/ detectOpenPalm(landmarks)
                      \/ detectTwoFingers(landmarks)
         IN  IF ~named /\ ~({THUMB_TIP, INDEX_TIP} \subseteq DOMAIN landmarks)
             THEN Raised
             ELSE [raised |-> FALSE,
                   isFist |-> detectFist(landmarks),
                   isOpenPalm |-> detectOpenPalm(landmarks),
                   isTwoFingerPoint |-> detectTwoFingers(landmarks),
                   pinchDistSq |-> IF named THEN 0 ELSE pinchDistSq(landmarks)]

InitMalformed ==
    /\ InitBase
    /\ layers = SceneLayers
    /\ PanelAtStart
    /\ frameTime \in Deltas
    /\ probe \in MalformedHands \cup Hands
    /\ features = None

ClassifyFrame ==
    /\ features = None
    /\ features' = ClassifyOutcome(probe)
    /\ UNCHANGED probe
    /\ UNCHANGED <<overlayVars, trackVars, videoVars, appVars, orbitMounted, rigVars, frameVars, historyVars, loopVars>>

NextMalformed == ClassifyFrame

SpecMalformed == InitMalformed /\ [][NextMalformed]_vars

IsMalformed(h) == DOMAIN h # DOMAIN FistHand

\* C11: for a hand of fewer than 21 landmarks the classification does not
\* raise and reports isFist = isOpenPalm = isTwoFingerPoint = false and a
\* pinch distance of 0.
C11_MalformedAllFalse ==
    (features # None /\ IsMalformed(probe)) =>
        /\ ~features.raised
        /\ ~features.isFist
        /\ ~features.isOpenPalm
        /\ ~features.isTwoFingerPoint
        /\ features.pinchDistSq = 0

(***************************************************************************)
(* The object selector on its own: one scan of CenterRaycaster over a      *)
(* scene of at most two images, each seen in one of many ways.             *)
(***************************************************************************)
SelectorSightings ==
    {[obj |-> ImageA, x |-> x, y |-> y, z |-> z, alignment |-> al, dist |-> 1000] :
        x \in {0, 80}, y \in {0, -80}, z \in {50, 100}, al \in {-90, 19, 20}}
    \cup
    {[obj |-> ImageB, x |-> x, y |-> 0, z |-> z, alignment |-> al, dist |-> d] :
        x \in {10, -79, -80}, z \in {50, -100}, al \in {-100, -85, -80, -70},
        d \in {500, 1000, 1500}}

SelectorScans ==
    {<<>>}
    \cup {<<c>> : c \in SelectorSightings}
    \cup {<<pair[1], pair[2]>> :
             pair \in {cd \in SelectorSightings \X SelectorSightings : cd[1].obj # cd[2].obj}}

InitSelect ==
    /\ InitBase
    /\ layers = SceneLayers
    /\ PanelAtStart
    /\ frameTime \in Deltas
    /\ probe \in SelectorScans
    /\ features = None

\* the scan of lines 368-419 on the traversal `probe`
SelectScan ==
    /\ features = None
    /\ features' = [hit |-> SelectObject(probe)]
    /\ UNCHANGED probe
    /\ UNCHANGED <<overlayVars, trackVars, videoVars, appVars, orbitMounted, rigVars, frameVars, historyVars, loopVars>>

NextSelect == SelectScan

SpecSelect == InitSelect /\ [][NextSelect]_vars

\* the selector's filters, on what the scan sees of an object
PassesFilters(c) ==
    /\ c.z > -100 /\ c.z < 100
    /\ c.x > -80 /\ c.x < 80
    /\ c.y > -80 /\ c.y < 80
    /\ c.alignment < 20

(***************************************************************************)
(* The ranking on its own: one scan over up to MaxCandidates objects that  *)
(* all pass the filters, in every order of traversal.                      *)
(***************************************************************************)
\* the i-th image of an album row
RankImage(i) ==
    [position |-> <<i * 400, 0, 1000>>, normal |-> <<0, 0, 100>>, width |-> 300, height |-> 200]

\* traversals of 1..MaxCandidates images in front of the camera, each at an
\* alignment of -1.0, -0.95, -0.9 or -0.85 and a distance of 5, 10 or 15
RankScans ==
    UNION {[1..n -> {[alignment |-> al, dist |-> d] :
                        al \in {-100, -95, -90, -85}, d \in {500, 1000, 1500}}] :
           n \in 1..MaxCandidates}

RankSighting(q, i) ==
    [obj |-> RankImage(i), x |-> 0, y |-> 0, z |-> 50,
     alignment |-> q[i].alignment, dist |-> q[i].dist]

InitRank ==
    /\ InitBase
    /\ layers = SceneLayers
    /\ PanelAtStart
    /\ frameTime \in Deltas
    /\ probe \in {[i \in DOMAIN q |-> RankSighting(q, i)] : q \in RankScans}
    /\ features = None

NextRank == SelectScan

SpecRank == InitRank /\ [][NextRank]_vars

\* the pairwise ranking rule: a is ranked before b
Outranks(a, b) == CompareCandidates(a, b) < 0

\* C33: no candidate of the scan outranks the object the selector returns.
C33_ReturnedIsNotOutranked ==
    (features # None /\ features.hit # None) =>
        \A i, j \in 1..Len(probe) :
            probe[i].obj = features.hit => ~Outranks(probe[j], probe[i])

\* C12: of two candidates that pass the filters, the selector returns the
\* nearer one when their alignments differ by less than 0.1, and the one of
\* more negative alignment when they differ by 0.1 or more.
C12_TieBandPrefersNearer ==
    (features # None /\ Len(probe) = 2 /\ PassesFilters(probe[1]) /\ PassesFilters(probe[2])) =>
        LET a == probe[1]
            b == probe[2]
            gap == IF a.alignment > b.alignment THEN a.alignment - b.alignment
                   ELSE b.alignment - a.alignment
        IN  /\ features.hit \in {a.obj, b.obj}
            /\ (gap < 10 /\ a.dist < b.dist) => features.hit = a.obj
            /\ (gap < 10 /\ b.dist < a.dist) => features.hit = b.obj
            /\ (gap >= 10 /\ a.alignment < b.alignment) => features.hit = a.obj
            /\ (gap >= 10 /\ b.alignment < a.alignment) => features.hit = b.obj

\* C12 witness: alignments -0.9 and -0.85 at distances 10 and 5; the
\* distance-5 candidate is returned
C12_Witness ==
    /\ features # None
    /\ Len(probe) = 2
    /\ PassesFilters(probe[1]) /\ PassesFilters(probe[2])
    /\ probe[1].alignment = -90 /\ probe[1].dist = 1000
    /\ probe[2].alignment = -85 /\ probe[2].dist = 500
    /\ features.hit = probe[2].obj

\* C13: an object the selector returns passes all four filters (depth,
\* x, y, alignment), and when no object of the scan passes them the
\* selector returns none, also when the scan holds a single object.
C13_OnlyFilteredReturned ==
    features # None =>
        /\ features.hit # None =>
              \E i \in 1..Len(probe) : probe[i].obj = features.hit /\ PassesFilters(probe[i])
        /\ (\A i \in 1..Len(probe) : ~PassesFilters(probe[i])) => features.hit = None

\* C13 witness: the only object of the scene sits exactly on the edge of the
\* central window and is not returned
C13_Witness ==
    /\ features # None
    /\ Len(probe) = 1
    /\ probe[1].x = 80 /\ probe[1].y = 0 /\ probe[1].z = 50 /\ probe[1].alignment = -90
    /\ features.hit = None

(***************************************************************************)
(* The scene side on its own: gestures reaching handleGesture, clicks, and *)
(* the render loop with CenterRaycaster's scans counted.  The gesture loop *)
(* and the render loop are both driven by requestAnimationFrame, one       *)
(* callback of each per animation frame, so a render tick falls between    *)
(* two gestures.                                                           *)
(***************************************************************************)
SceneGestures == {[type |-> "Grab"], [type |-> "Release"]}

\* one frame of the gesture loop that calls onGesture(gesture)
GestureDelivered(gesture) ==
    LET after == handleGesture(AppNow, gesture, orbitMounted, closedFocus)
    IN  /\ ~tickDue
        /\ grabSignal < MaxGrabs
        /\ tickDue' = orbitMounted
        /\ UNCHANGED <<frameTime, ticks, layers, selectedLayerId, uuids>>
        /\ focusTarget' = after.focusTarget
        /\ grabSignal' = after.grabSignal
        /\ azimuth' = after.azimuth
        /\ polar' = after.polar
        /\ camPos' = after.camPos
        /\ camQuat' = after.camQuat
        /\ orbitTarget' = after.orbitTarget
        /\ UNCHANGED <<overlayVars, trackVars, videoVars, orbitMounted, rigVars, frameVars,
                       historyVars, probeVars>>

\* one frame of the render loop, the scan it runs recorded
LoggedRenderFrame(delta, scan) ==
    /\ RenderUpdate(delta, scan)
    /\ tickDue' = FALSE
    /\ scanLog' = IF ScanDue(grabSignal, lastTriggerRef)
                  THEN [count |-> scanLog.count + 1, scan |-> scan]
                  ELSE scanLog
    /\ UNCHANGED <<frameTime, ticks, layers, selectedLayerId, uuids, rigLog, detectLog>>

LoggedRenderTick ==
    \E delta \in Deltas :
        \/ ~ScanDue(grabSignal, lastTriggerRef) /\ LoggedRenderFrame(delta, <<>>)
        \/ ScanDue(grabSignal, lastTriggerRef) /\ \E scan \in Scans : LoggedRenderFrame(delta, scan)

InitGrab ==
    /\ InitBase
    /\ layers = SceneLayers
    /\ PanelAtStart
    /\ frameTime \in Deltas
    /\ probe = FistHand
    /\ features = None

NextGrab ==
    \/ SceneMounted
    \/ \E gesture \in SceneGestures : GestureDelivered(gesture)
    \/ \E img \in Images : ImageClick(img)
    \/ ExitPreviewClick
    \/ LoggedRenderTick

SpecGrab == InitGrab /\ [][NextGrab]_vars

NoCandidate(scan) == \A i \in 1..Len(scan) : ~PassesFilters(scan[i])

\* C14: a scan in which no object passes the filters (an empty scene
\* included) selects nothing and leaves focusTarget as it was; the camera is
\* where the animator alone puts it, and does not move at all when the
\* animator is idle; the Grab event itself changes neither.
C14_NoCandidateNoOp ==
    /\ [][(scanLog'.count # scanLog.count /\ NoCandidate(scanLog'.scan)) =>
            /\ focusTarget' = focusTarget
            /\ UNCHANGED <<azimuth, polar>>
            /\ (focusTarget = None /\ ~stateRef.saved) =>
                  UNCHANGED <<camPos, camQuat, orbitTarget, controlsEnabled>>
            /\ \E delta \in Deltas :
                  LET r == CameraRigFrame([camPos |-> camPos, camQuat |-> camQuat,
                                           orbitTarget |-> orbitTarget,
                                           enabled |-> controlsEnabled,
                                           stateRef |-> stateRef], focusTarget, delta)
                  IN  camPos' = r.camPos /\ camQuat' = r.camQuat
                      /\ orbitTarget' = r.orbitTarget]_vars
    /\ [][grabSignal' # grabSignal =>
            UNCHANGED <<focusTarget, azimuth, polar, camPos, camQuat, orbitTarget>>]_vars
    /\ [](\A scan \in Scans : NoCandidate(scan) => SelectObject(scan) = None)

\* C14 witness: a Grab was scanned over two objects, neither passing the
\* filters, and nothing is focused
C14_Witness ==
    /\ scanLog.count = 1
    /\ grabSignal = 1 /\ lastTriggerRef = 1
    /\ Len(scanLog.scan) = 2
    /\ NoCandidate(scanLog.scan)
    /\ focusTarget = None
    /\ camPos = <<0, 0, 3000>>

\* C15: a render tick runs the scan exactly when a Grab arrived since the
\* previous scan, and then once; after every tick the number of scans run
\* equals the number of Grab events, so none runs at start-up or without a
\* new Grab.
C15_ScanOncePerGrab ==
    /\ [][scanLog' # scanLog =>
            /\ scanLog'.count = scanLog.count + 1
            /\ grabSignal # lastTriggerRef
            /\ lastTriggerRef' = grabSignal]_vars
    /\ [][lastTriggerRef' # lastTriggerRef => scanLog'.count = scanLog.count + 1]_vars
    /\ [](scanLog.count <= grabSignal)
    /\ [](~tickDue => scanLog.count = grabSignal)

\* C15 witness: two Grabs, two scans, and a further tick that ran none
C15_Witness ==
    /\ grabSignal = 2
    /\ scanLog.count = 2
    /\ ~tickDue
    /\ lastTriggerRef = 2

(***************************************************************************)
(* The focus/restore animator on its own: FocusTarget set and cleared by   *)
(* the pointer, and render ticks at one frame time per behaviour.          *)
(***************************************************************************)
\* the fixed frame times tried, in milliseconds: step 0.8, 1.2 and 2.0
RigDeltas == {200, 300, 500}

InitRig ==
    /\ InitBase
    /\ layers = SceneLayers
    /\ PanelAtStart
    /\ frameTime \in RigDeltas
    /\ probe = FistHand
    /\ features = None

\* onImageClick: FocusTarget is set
FocusEntered(img) ==
    /\ ImageClickUpdate(img)
    /\ rigLog' = IF focusTarget = None
                 THEN [rigLog EXCEPT !.entered = TRUE, !.idle = ~stateRef.saved,
                                     !.pose = CameraPose, !.roundTrip = FALSE,
                                     !.atTick = FALSE]
                 ELSE [rigLog EXCEPT !.atTick = FALSE]
    /\ UNCHANGED <<scanLog, detectLog, loopVars>>

\* the exit-preview button: FocusTarget is cleared
FocusExited ==
    /\ ExitPreviewUpdate
    /\ rigLog' = [rigLog EXCEPT !.entered = FALSE, !.roundTrip = rigLog.entered,
                                !.atTick = FALSE]
    /\ UNCHANGED <<scanLog, detectLog, loopVars>>

\* one render tick at the behaviour's frame time; no Grab is pending
RigTick ==
    /\ ticks < MaxTicks
    /\ RenderUpdate(frameTime, <<>>)
    /\ ticks' = ticks + 1
    /\ rigLog' = [rigLog EXCEPT
                    !.entered = FALSE,
                    !.atTick = TRUE,
                    !.restoring =
                        IF focusTarget # None THEN TRUE
                        ELSE /\ rigLog.restoring
                             /\ RestoreErrSq(camPos', stateRef.position)
                                    >= RESTORE_EPS * RESTORE_EPS]
    /\ UNCHANGED <<tickDue, frameTime, layers, selectedLayerId, uuids, scanLog, detectLog>>

NextRig ==
    \/ SceneMounted
    \/ \E img \in Images : FocusEntered(img)
    \/ FocusExited
    \/ RigTick

SpecRig == InitRig /\ [][NextRig]_vars

\* the saved pose a snapshot of the current camera makes
SnapshotNow ==
    [saved |-> TRUE, position |-> camPos, quaternion |-> camQuat, target |-> orbitTarget]

\* the first tick that sees a FocusTarget set from none
FirstFocusTick == ticks' # ticks /\ rigLog.entered /\ focusTarget # None

\* C16 as stated: on the first tick after every transition of FocusTarget
\* from none to set, whatever the animator was doing, the saved pose becomes
\* the camera's pose before the tick and the controls are disabled.
C16_SnapshotOnEveryEntry ==
    [][FirstFocusTick => (stateRef' = SnapshotNow /\ ~controlsEnabled')]_vars

\* C16 amended: the first tick after a transition of FocusTarget from none
\* to set disables the controls and, if no saved pose was held, saves the
\* pose the camera had at the transition before moving it; if a restore was
\* still in progress, the pose already saved is kept.
C16_SnapshotUnlessHeld ==
    [][FirstFocusTick =>
         /\ ~controlsEnabled'
         /\ rigLog.idle = ~stateRef.saved
         /\ CameraPose = rigLog.pose
         /\ IF rigLog.idle THEN stateRef' = SnapshotNow ELSE stateRef' = stateRef]_vars

\* C16 witness: a focus entered during a restore has been ticked, and the
\* pose held is not the pose the camera had on entry
C16_Witness ==
    /\ focusTarget # None
    /\ rigLog.atTick
    /\ ~rigLog.idle
    /\ stateRef.saved
    /\ stateRef.position # rigLog.pose.camPos

\* C17 as stated: after every tick a saved pose is held exactly when
\* FocusTarget is none and the restore has not converged.
C17_SavedIffRestoring ==
    rigLog.atTick => (stateRef.saved <=> (focusTarget = None /\ rigLog.restoring))

\* C17 amended: after every tick a saved pose is held exactly when
\* FocusTarget is set, or FocusTarget is none and the restore has not yet
\* converged; in the latter case the camera is at least RESTORE_EPS from the
\* saved position.
C17_SavedIffFocusedOrRestoring ==
    /\ rigLog.atTick =>
          (stateRef.saved <=> (focusTarget # None \/ (focusTarget = None /\ rigLog.restoring)))
    /\ (rigLog.atTick /\ focusTarget = None /\ stateRef.saved) =>
          RestoreErrSq(camPos, stateRef.position) >= RESTORE_EPS * RESTORE_EPS

\* C17 witness: a tick has run with FocusTarget set, and the pose is held
C17_Witness ==
    /\ rigLog.atTick
    /\ focusTarget # None
    /\ stateRef.saved
    /\ camPos # stateRef.position

\* a restore tick that starts at most 10 units, and not less than RESTORE_EPS,
\* from the saved position
RestoreTick ==
    /\ ticks' # ticks
    /\ focusTarget = None
    /\ stateRef.saved
    /\ RestoreErrSq(camPos, stateRef.position) <= 1000 * 1000
    /\ RestoreErrSq(camPos, stateRef.position) >= RESTORE_EPS * RESTORE_EPS

\* C18: every restore tick from an error of at most 10 units brings the
\* camera strictly nearer the saved position without carrying it past the
\* saved position on any axis.
C18_RestoreConverges ==
    [][RestoreTick =>
         /\ RestoreErrSq(camPos', stateRef.position) < RestoreErrSq(camPos, stateRef.position)
         /\ \A i \in 1..3 :
               (stateRef.position[i] - camPos'[i]) * (stateRef.position[i] - camPos[i]) >= 0]_vars

\* the position a tick of CameraRig moves the camera towards
RigGoal == IF focusTarget # None THEN FocusCameraPos(focusTarget) ELSE stateRef.position

\* C31: at every frame time, a focus tick or a restore tick leaves the camera
\* no farther from its goal position than it was and does not carry it past
\* the goal on any axis.
C31_TickNeverOvershoots ==
    [][(ticks' # ticks /\ (focusTarget # None \/ stateRef.saved)) =>
         /\ RestoreErrSq(camPos', RigGoal) <= RestoreErrSq(camPos, RigGoal)
         /\ \A i \in 1..3 : (RigGoal[i] - camPos'[i]) * (RigGoal[i] - camPos[i]) >= 0]_vars

\* C34: while a saved pose is held, no step changes the saved position,
\* orientation or orbit target: not a tick under a replaced FocusTarget, and
\* not a tick under a FocusTarget set during a restore.
C34_HeldPoseNotOverwritten ==
    [][stateRef.saved =>
         /\ stateRef'.position = stateRef.position
         /\ stateRef'.quaternion = stateRef.quaternion
         /\ stateRef'.target = stateRef.target]_vars

\* C34 witness: a focus was set while a restore was under way, a tick has
\* run on it, and the pose saved from the initial camera is still held
C34_Witness ==
    /\ ~rigLog.idle
    /\ rigLog.atTick
    /\ focusTarget # None
    /\ stateRef.saved
    /\ stateRef.position = <<0, 0, 3000>>
    /\ stateRef.target = <<0, 0, 0>>
    /\ orbitTarget # <<0, 0, 0>>

\* C19 as stated: after a focus entered and released with no tick between,
\* once no saved pose is held the camera is exactly in its pose on entry.
C19_RoundTripExact ==
    (rigLog.roundTrip /\ ~stateRef.saved) => CameraPose = rigLog.pose

\* C19 amended: after a focus entered while no saved pose was held and
\* released with no tick between, the camera stays exactly in its pose on
\* entry, no pose is saved and the controls stay enabled.
C19_RoundTripWhenIdle ==
    (rigLog.roundTrip /\ rigLog.idle) =>
        (CameraPose = rigLog.pose /\ ~stateRef.saved /\ controlsEnabled)

\* C19 witness: a tick has run after such a round trip, made from a pose
\* that an earlier restore left
C19_Witness ==
    /\ rigLog.roundTrip
    /\ rigLog.idle
    /\ rigLog.atTick
    /\ focusTarget = None
    /\ stateRef.position = <<0, 0, 3000>>

\* C20: the controls are disabled exactly while a saved pose is held: they
\* are disabled in the step that saves the pose, a focus tick, and enabled in
\* the step that discards it, the restore tick that leaves the camera within
\* RESTORE_EPS of the saved position.
C20_DisabledIffSaved ==
    /\ [](controlsEnabled <=> ~stateRef.saved)
    /\ [][(~stateRef.saved /\ stateRef'.saved) =>
            (ticks' # ticks /\ focusTarget # None /\ ~controlsEnabled')]_vars
    /\ [][(stateRef.saved /\ ~stateRef'.saved) =>
            /\ ticks' # ticks /\ focusTarget = None /\ controlsEnabled'
            /\ RestoreErrSq(camPos', stateRef.position) < RESTORE_EPS * RESTORE_EPS]_vars
    /\ [][(ticks' # ticks /\ focusTarget = None /\ stateRef.saved
             /\ RestoreErrSq(camPos', stateRef.position) < RESTORE_EPS * RESTORE_EPS) =>
            (~stateRef'.saved /\ controlsEnabled')]_vars

\* C20 witness: a restore has completed: the controls are enabled again and
\* the pose saved from the initial camera is no longer held
C20_Witness ==
    /\ rigLog.atTick
    /\ controlsEnabled
    /\ ~stateRef.saved
    /\ ~rigLog.restoring
    /\ stateRef.position = <<0, 0, 3000>>

(***************************************************************************)
(* handleGesture on its own: one gesture per step, applied to the camera   *)
(* as it is.  SpecOrbit delivers Rotate events, SpecZoom zoom events.      *)
(***************************************************************************)
\* onGesture(gesture): the handler runs and the event is recorded
GestureHandledUpdate(gesture) ==
    LET after == handleGesture(AppNow, gesture, orbitMounted, closedFocus)
    IN  /\ orbitMounted
        /\ emitted' = <<gesture>>
        /\ focusTarget' = after.focusTarget
        /\ grabSignal' = after.grabSignal
        /\ azimuth' = after.azimuth
        /\ polar' = after.polar
        /\ camPos' = after.camPos
        /\ camQuat' = after.camQuat
        /\ orbitTarget' = after.orbitTarget
        /\ UNCHANGED <<frame, inFistRun, grabsInRun>>
        /\ UNCHANGED <<overlayVars, trackVars, videoVars, orbitMounted, rigVars,
                       historyVars, loopVars>>

GestureHandled(gesture) ==
    /\ GestureHandledUpdate(gesture)
    /\ UNCHANGED probeVars

\* smoothed palm movements (millionths): none, 0.025, 0.05, and 1.0 and 50,
\* far more than a hand can move in a frame
RotateSteps == {-50000000, -1000000, -50000, -25000, 0, 25000, 50000, 1000000, 50000000}

RotateEvents ==
    {[type |-> "Rotate", dx |-> dx, dy |-> dy] :
        dx \in {-50000, -25000, 0, 25000, 50000}, dy \in RotateSteps}

RotateDelivered(gesture) ==
    /\ azimuth - gesture.dx * SENSITIVITY <= MaxTurn
    /\ azimuth - gesture.dx * SENSITIVITY >= -MaxTurn
    /\ GestureHandled(gesture)

InitOrbit ==
    /\ InitBase
    /\ layers = SceneLayers
    /\ PanelAtStart
    /\ frameTime \in Deltas
    /\ probe = FistHand
    /\ features = None

NextOrbit ==
    \/ SceneMounted
    \/ \E gesture \in RotateEvents : RotateDelivered(gesture)

SpecOrbit == InitOrbit /\ [][NextOrbit]_vars

\* C21: a Rotate applied in free-orbit mode subtracts dx * 20 from the
\* azimuth and sets the polar angle to polar - dy * 20 clamped to
\* [0.1, pi - 0.1]; the polar angle is within [0.1, pi - 0.1] after every
\* Rotate, whatever dy.
C21_RotateClampsPolar ==
    /\ [][(emitted' # <<>> /\ emitted'[1].type = "Rotate" /\ focusTarget = None) =>
            LET want == polar - emitted'[1].dy * 20
            IN  /\ azimuth' = azimuth - emitted'[1].dx * 20
                /\ polar' = IF want < 100000 THEN 100000
                            ELSE IF want > 3141593 - 100000 THEN 3141593 - 100000
                            ELSE want]_vars
    /\ [](polar >= 100000 /\ polar <= 3141593 - 100000)

\* C21 witness: a Rotate with dy = -50 was applied and the polar angle
\* stopped at pi - 0.1, the azimuth having turned by one radian
C21_Witness ==
    /\ emitted = <<[type |-> "Rotate", dx |-> -50000, dy |-> -50000000]>>
    /\ polar = 3041593
    /\ azimuth = 1000000

(***************************************************************************)
(* Zoom gestures.  The mouse wheel (OrbitControls, enableZoom) moves the   *)
(* camera along its view axis between minDistance and maxDistance of the   *)
(* target, so a zoom gesture can find the camera at any distance.          *)
(***************************************************************************)
ZoomEvents == {[type |-> "ZoomIn"], [type |-> "ZoomOut"]}

\* a zoom gesture; probe keeps the camera as the handler found it
ZoomDelivered(gesture) ==
    /\ V3LenSq(handleGesture(AppNow, gesture, orbitMounted, closedFocus).camPos)
          <= MaxRange * MaxRange
    /\ GestureHandledUpdate(gesture)
    /\ probe' = AppNow
    /\ UNCHANGED features

\* the wheel: half a unit towards the target (dir = 1) or away from it
WheelDolly(dir) ==
    LET half == <<camQuat[1] \div 2, camQuat[2] \div 2, camQuat[3] \div 2>>
        pos == IF dir = 1 THEN V3Add(camPos, half) ELSE V3Sub(camPos, half)
        radiusSq == V3LenSq(V3Sub(pos, orbitTarget))
    IN  /\ orbitMounted /\ controlsEnabled
        /\ radiusSq >= 200 * 200 /\ radiusSq <= 10000 * 10000
        /\ V3LenSq(pos) <= MaxRange * MaxRange
        /\ camPos' = pos
        /\ emitted' = <<>>
        /\ probe' = None
        /\ UNCHANGED <<focusTarget, grabSignal, azimuth, polar, camQuat, orbitTarget>>
        /\ UNCHANGED <<frame, inFistRun, grabsInRun, features>>
        /\ UNCHANGED <<overlayVars, trackVars, videoVars, orbitMounted, rigVars,
                       historyVars, loopVars>>

InitZoom ==
    /\ InitBase
    /\ layers = SceneLayers
    /\ PanelAtStart
    /\ frameTime \in Deltas
    /\ probe = None
    /\ features = None

NextZoom ==
    \/ SceneMounted
    \/ \E gesture \in ZoomEvents : ZoomDelivered(gesture)
    \/ \E dir \in {-1, 1} : WheelDolly(dir)

SpecZoom == InitZoom /\ [][NextZoom]_vars

\* the last step was a zoom gesture of this type
Zoomed(t) == emitted = <<[type |-> t]>> /\ probe # None

\* where the camera would be after the step, from where the handler found it
ZoomNextPos(t) ==
    IF t = "ZoomIn" THEN V3Add(probe.camPos, probe.camQuat)
    ELSE V3Sub(probe.camPos, probe.camQuat)

ZoomRejected == camPos = probe.camPos /\ orbitTarget = probe.orbitTarget

\* the camera and the target have each moved one unit
ZoomStepped ==
    /\ V3LenSq(V3Sub(camPos, probe.camPos)) = 100 * 100
    /\ V3LenSq(V3Sub(orbitTarget, probe.orbitTarget)) = 100 * 100

\* C22 as stated: a ZoomIn is rejected exactly when the distance from the
\* origin after it would be below 5, a ZoomOut exactly when it would be above
\* 100; a rejected step moves nothing, an accepted one moves one unit.
C22_ZoomLimitsStrict ==
    /\ Zoomed("ZoomIn") =>
          IF V3LenSq(ZoomNextPos("ZoomIn")) < 500 * 500 THEN ZoomRejected ELSE ZoomStepped
    /\ Zoomed("ZoomOut") =>
          IF V3LenSq(ZoomNextPos("ZoomOut")) > 10000 * 10000 THEN ZoomRejected ELSE ZoomStepped

\* C22 amended: a ZoomIn is rejected exactly when the distance from the
\* origin after it would be 5 or less, a ZoomOut exactly when it would be 100
\* or more; a rejected step moves nothing, an accepted one moves one unit.
C22_ZoomLimits ==
    /\ Zoomed("ZoomIn") =>
          IF V3LenSq(ZoomNextPos("ZoomIn")) <= 500 * 500 THEN ZoomRejected ELSE ZoomStepped
    /\ Zoomed("ZoomOut") =>
          IF V3LenSq(ZoomNextPos("ZoomOut")) >= 10000 * 10000 THEN ZoomRejected ELSE ZoomStepped

\* C22 witness: a ZoomIn found the camera 6 units from the origin, so that
\* the step would end at exactly 5, and moved nothing
C22_Witness ==
    /\ Zoomed("ZoomIn")
    /\ probe.camPos = <<0, 0, 600>>
    /\ ZoomRejected

\* C30: an accepted ZoomIn or ZoomOut moves the camera and the orbit target
\* by the same vector: position - target and the orientation are as before.
C30_ZoomKeepsOffset ==
    ((Zoomed("ZoomIn") \/ Zoomed("ZoomOut")) /\ camPos # probe.camPos) =>
        /\ V3Sub(camPos, probe.camPos) = V3Sub(orbitTarget, probe.orbitTarget)
        /\ V3Sub(camPos, orbitTarget) = V3Sub(probe.camPos, probe.orbitTarget)
        /\ camQuat = probe.camQuat

\* C30 witness: a ZoomOut was accepted with the target already off the origin
\* and the camera 10.5 units from it
C30_Witness ==
    /\ Zoomed("ZoomOut")
    /\ camPos # probe.camPos
    /\ probe.orbitTarget # <<0, 0, 0>>
    /\ V3Sub(probe.camPos, probe.orbitTarget) = <<0, 0, 1050>>

(***************************************************************************)
(* The camera session step by step.  startCamera awaits initialize() and   *)
(* getUserMedia(), attaches the stream and clears isLoading in its         *)
(* `finally`; the loop starts only later, when loadeddata has fired and    *)
(* play() has resolved.  Between the two the start button is shown again.  *)
(***************************************************************************)
\* the start button: startCamera runs up to its first await
StartClicked ==
    /\ ~isCameraActive /\ ~isLoading
    /\ isLoading' = TRUE
    /\ isInPreview' = (focusTarget # None)
    /\ closedFocus' = (focusTarget # None)
    /\ session' = [session EXCEPT !.awaiting = TRUE, !.stopped = FALSE]
    /\ UNCHANGED <<isCameraActive, loopRunning>>
    /\ UNCHANGED <<trackVars, videoVars, appVars, orbitMounted, rigVars, frameVars,
                   historyVars, loopVars, probeVars>>

\* initialize() or getUserMedia() rejects: the catch and the finally
StartRejected ==
    /\ session.awaiting
    /\ isLoading' = FALSE
    /\ isCameraActive' = FALSE
    /\ session' = [session EXCEPT !.awaiting = FALSE]
    /\ UNCHANGED <<loopRunning, isInPreview, closedFocus>>
    /\ UNCHANGED <<trackVars, videoVars, appVars, orbitMounted, rigVars, frameVars,
                   historyVars, loopVars, probeVars>>

\* getUserMedia() resolves: the stream becomes video.srcObject, which loads
\* anew, onloadeddata is set, and the finally clears isLoading
StreamAttached ==
    /\ session.awaiting
    /\ isLoading' = FALSE
    /\ handLandmarker' = TRUE
    /\ session' = [session EXCEPT !.awaiting = FALSE, !.attached = TRUE, !.playing = FALSE]
    /\ UNCHANGED <<isCameraActive, loopRunning, isInPreview, closedFocus>>
    /\ UNCHANGED <<lastVideoTime, videoTime>>
    /\ UNCHANGED <<trackVars, appVars, orbitMounted, rigVars, frameVars,
                   historyVars, loopVars, probeVars>>

\* onloadeddata: play() resolves, setIsCameraActive(true), predictWebcam()
\* registers its first callback
PlayResolved ==
    /\ session.attached
    /\ session.chains < MaxChains
    /\ isCameraActive' = TRUE
    /\ loopRunning' = TRUE
    /\ session' = [session EXCEPT !.attached = FALSE, !.playing = TRUE,
                                  !.chains = session.chains + 1]
    /\ UNCHANGED <<isLoading, isInPreview, closedFocus>>
    /\ UNCHANGED <<trackVars, videoVars, appVars, orbitMounted, rigVars, frameVars,
                   historyVars, loopVars, probeVars>>

\* onloadeddata: play() rejects
PlayRejected ==
    /\ session.attached
    /\ session' = [session EXCEPT !.attached = FALSE]
    /\ UNCHANGED <<isCameraActive, isLoading, loopRunning, isInPreview, closedFocus>>
    /\ UNCHANGED <<trackVars, videoVars, appVars, orbitMounted, rigVars, frameVars,
                   historyVars, loopVars, probeVars>>

\* the stop button (shown while isCameraActive): the callback requestRef
\* names is cancelled, the tracks are stopped and srcObject is cleared
StopClicked ==
    LET left == IF session.chains > 0 THEN session.chains - 1 ELSE 0
    IN  /\ isCameraActive
        /\ isCameraActive' = FALSE
        /\ activeGesture' = NoGesture
        /\ loopRunning' = (left > 0)
        /\ session' = [session EXCEPT !.attached = FALSE, !.playing = FALSE,
                                      !.chains = left, !.stopped = TRUE]
        /\ UNCHANGED <<isLoading, isInPreview, closedFocus>>
        /\ UNCHANGED <<lastPalmPos, wasFist, smoothRot>>
        /\ UNCHANGED <<videoVars, appVars, orbitMounted, rigVars, frameVars,
                       historyVars, loopVars, probeVars>>

\* the playing stream delivers a new video frame
StreamAdvance ==
    /\ session.playing
    /\ videoTime < MaxVideoTime
    /\ videoTime' = videoTime + 1
    /\ UNCHANGED <<handLandmarker, lastVideoTime>>
    /\ UNCHANGED <<overlayVars, trackVars, appVars, orbitMounted, rigVars, frameVars,
                   historyVars, loopVars, probeVars>>

\* one callback of a registered predictWebcam: it returns at line 128 while
\* the video has no size or is paused
SessionPredict ==
    \/ ~session.playing /\ PredictNotReady
    \/ session.playing /\ PredictSkipped
    \/ session.playing /\ PredictDetectThrows
    \/ session.playing /\ \E results \in DetectResults : PredictProcess(results)

InitLifecycle ==
    /\ InitBase
    /\ layers = SceneLayers
    /\ PanelAtStart
    /\ frameTime \in Deltas
    /\ probe = FistHand
    /\ features = None

NextLifecycle ==
    \/ StartClicked
    \/ StartRejected
    \/ StreamAttached
    \/ PlayResolved
    \/ PlayRejected
    \/ StopClicked
    \/ StreamAdvance
    \/ SessionPredict
    \/ SceneMounted

SpecLifecycle == InitLifecycle /\ [][NextLifecycle]_vars

\* C26: from stopCamera until the next call of startCamera no gesture event
\* is emitted and wasFist, lastPalmPosition and the smoothing accumulator do
\* not change.
C26_NoEventsAfterStop ==
    [][session.stopped =>
         /\ lastVideoTime' # lastVideoTime => emitted' = <<>>
         /\ UNCHANGED <<wasFist, lastPalmPos, smoothRot, grabSignal>>]_vars


(***************************************************************************)
(* detect() and the gesture logic, callback by callback.  Every callback   *)
(* of predictWebcam that reaches detect() is a step of its own, also the   *)
(* ones that get null back.                                                *)
(***************************************************************************)
\* the hands the first entry of results.landmarks can be: a fist, an open
\* palm, a two-finger point at two places, and a pinch between the thresholds
FirstHands ==
    {FistHand, OpenHand, TwoFingerHand(<<480, 760>>), TwoFingerHand(<<500, 730>>),
     PinchHand(120)}

\* the hands a second entry of results.landmarks can be
SecondHands == {FistHand, OpenHand}

\* null, as detect() returns it
NullResult == [ok |-> FALSE, landmarks |-> <<>>]

\* what detectForVideo can do when called: throw (ok is FALSE), or return
\* the landmarks of no hand, one hand or two hands
DetectorOutcomes ==
    {NullResult}
    \cup {[ok |-> TRUE, landmarks |-> r] :
            r \in {<<>>} \cup {<<h>> : h \in FirstHands}
                        \cup {<<h, g>> : h \in FirstHands, g \in SecondHands}}

\* faulty variant of DetectCaught: the catch hands back the previous result
DetectCaughtStale(previous) == previous

\* lines 51-55 of gestureService.ts: the catch logs and detect returns null
DetectCaught(previous) == NullResult

\* faulty variant of detect: the video time is not compared
detectEveryCall(landmarker, currentTime, last, outcome, previous) ==
    IF ~landmarker
    THEN [invoked |-> FALSE, lastVideoTime |-> last, result |-> NullResult]
    ELSE [invoked |-> TRUE, lastVideoTime |-> currentTime,
          result |-> IF outcome.ok THEN outcome ELSE DetectCaught(previous)]

\* GestureService.detect: whether detectForVideo is called, lastVideoTime
\* afterwards, and the value returned
detect(landmarker, currentTime, last, outcome, previous) ==
    IF ~landmarker
    THEN [invoked |-> FALSE, lastVideoTime |-> last, result |-> NullResult]
    ELSE IF currentTime # last
         THEN [invoked |-> TRUE, lastVideoTime |-> currentTime,
               result |-> IF outcome.ok THEN outcome ELSE DetectCaught(previous)]
         ELSE [invoked |-> FALSE, lastVideoTime |-> last, result |-> NullResult]

\* one callback of predictWebcam from line 135 on; probe keeps the tracking
\* state and the preview flag the callback started from and the last result
\* that was not null
DetectTick(outcome) ==
    LET d == detect(handLandmarker, videoTime, lastVideoTime, outcome, probe.result)
    IN  /\ loopRunning
        /\ lastVideoTime' = d.lastVideoTime
        /\ detectLog' = [tick |-> ~detectLog.tick,
                         invoked |-> d.invoked,
                         threw |-> d.invoked /\ ~outcome.ok,
                         time |-> IF d.invoked THEN videoTime ELSE detectLog.time,
                         repeat |-> d.invoked /\ detectLog.time = videoTime]
        /\ IF d.result.ok
           THEN /\ ProcessUpdate(d.result.landmarks)
                /\ probe' = [track |-> TrackingNow, preview |-> isInPreview,
                             result |-> d.result]
           ELSE /\ frame' = [status |-> IF d.invoked THEN "failed" ELSE "skipped",
                             primary |-> None]
                /\ emitted' = <<>>
                /\ probe' = [probe EXCEPT !.track = TrackingNow, !.preview = isInPreview]
                /\ UNCHANGED <<inFistRun, grabsInRun>>
                /\ UNCHANGED <<handLandmarker, videoTime>>
                /\ UNCHANGED <<overlayVars, trackVars, appVars, orbitMounted, rigVars,
                               loopVars>>
        /\ UNCHANGED <<scanLog, rigLog, features>>

InitDetect ==
    /\ InitBase
    /\ layers = SceneLayers
    /\ PanelAtStart
    /\ frameTime \in Deltas
    /\ probe = [track |-> [wasFist |-> FALSE, lastPalmPos |-> None,
                           smoothRot |-> <<0, 0>>, label |-> NoGesture],
                preview |-> FALSE, result |-> NullResult]
    /\ features = None

NextDetect ==
    \/ StartCamera
    \/ VideoPlaying
    \/ VideoAdvance
    \/ \E outcome \in DetectorOutcomes : DetectTick(outcome)
    \/ SceneMounted
    \/ \E img \in ClickImages : ImageClick(img)

SpecDetect == InitDetect /\ [][NextDetect]_vars

\* a step that is one callback of predictWebcam
TickStep == detectLog'.tick # detectLog.tick

\* C23: a callback that finds the video time where the last detector call
\* left it does not call the detector, emits no gesture event and leaves
\* wasFist, lastPalmPosition and the smoothing accumulator as they were; no
\* two detector calls in a row get the same video time.
C23_NoDetectWithoutNewFrame ==
    /\ [][(TickStep /\ videoTime = lastVideoTime) =>
            /\ ~detectLog'.invoked
            /\ emitted' = <<>>
            /\ UNCHANGED <<wasFist, lastPalmPos, smoothRot>>
            /\ UNCHANGED appVars]_vars
    /\ [](~detectLog.repeat)

\* C23 witness: a callback was skipped after a fist frame and after a Rotate
\* had moved the smoothing accumulator
C23_Witness ==
    /\ frame.status = "skipped"
    /\ ~detectLog.invoked
    /\ detectLog.time = videoTime
    /\ wasFist
    /\ smoothRot # <<0, 0>>

\* C24: when the detector throws, the callback emits no gesture event and
\* leaves the tracking state as it was, the loop stays registered, and the
\* next callback that sees a new video time calls the detector and, if it
\* returns, runs the gesture logic on the result from that tracking state.
C24_DetectorErrorContained ==
    /\ [][(TickStep /\ detectLog'.threw) =>
            /\ emitted' = <<>>
            /\ UNCHANGED <<wasFist, lastPalmPos, smoothRot>>
            /\ UNCHANGED appVars
            /\ loopRunning']_vars
    /\ [][(TickStep /\ detectLog.threw /\ videoTime # lastVideoTime) =>
            /\ detectLog'.invoked
            /\ ~detectLog'.threw =>
                  LET g == GestureLogic(TrackingNow, probe'.result.landmarks, isInPreview)
                  IN  /\ emitted' = g.events
                      /\ wasFist' = g.wasFist
                      /\ lastPalmPos' = g.lastPalmPos
                      /\ smoothRot' = g.smoothRot]_vars

\* C24 witness: the detector threw on the frame after a two-finger frame,
\* and the palm position that frame recorded is still held
C24_Witness ==
    /\ detectLog.threw
    /\ frame.status = "failed"
    /\ probe.result.ok
    /\ lastPalmPos # None
    /\ emitted = <<>>

C28_WasFistIsFistFrame ==
    frame.status \in {"hand", "nohand"} => (wasFist <=> FistFrame)

\* C28 witness: a two-finger frame in preview mode right after a fist frame
C28_Witness ==
    /\ frame.status = "hand"
    /\ ~detectFist(frame.primary) /\ ~detectOpenPalm(frame.primary)
    /\ detectTwoFingers(frame.primary)
    /\ probe.preview
    /\ probe.track.wasFist
    /\ ~wasFist

\* the first hand of a result is a two-finger point
TwoFingerResult(result) ==
    /\ result.ok
    /\ Len(result.landmarks) > 0
    /\ ~detectFist(result.landmarks[1])
    /\ ~detectOpenPalm(result.landmarks[1])
    /\ detectTwoFingers(result.landmarks[1])

isPaused == focusTarget # None

\* the tests of a layer's callback other than isPaused: its object is
\* mounted, it is visible, and an album is not laid out as a grid
LayerRuns(layer) ==
    IF layer.type = "album"
    THEN layer.visible /\ layer.layout # "grid"
    ELSE layer.ready /\ layer.visible

\* faulty variant of LayerFrame: the album's callback does not test isPaused
LayerFrameAlbumUnpaused(layer, paused) ==
    IF (paused /\ layer.type # "album") \/ ~LayerRuns(layer)
    THEN layer
    ELSE [layer EXCEPT !.frames = @ + 1]

\* one call of a layer's useFrame callback: ParticleCloud, AlbumLayer,
\* ImageParticleLayer, TextParticleLayer
LayerFrame(layer, paused) ==
    IF paused \/ ~LayerRuns(layer)
    THEN layer
    ELSE [layer EXCEPT !.frames = @ + 1]

\* the layers a scene is made of
LayerKinds ==
    {Layer("particle", TRUE, "none", TRUE), Layer("particle", FALSE, "none", TRUE),
     Layer("album", TRUE, "spiral", TRUE), Layer("album", TRUE, "grid", TRUE),
     Layer("image", TRUE, "none", TRUE), Layer("image", TRUE, "none", FALSE),
     Layer("text", TRUE, "none", TRUE)}

\* the scene shows album images to click and to hit
HasAlbum == \E i \in DOMAIN layers : layers[i].type = "album" /\ layers[i].visible

\* one frame of the render loop: CameraRig, CenterRaycaster and the layers
LayerTick ==
    \E scan \in SceneScans :
        /\ ticks < MaxTicks
        /\ (~ScanDue(grabSignal, lastTriggerRef) \/ ~HasAlbum) => scan = <<>>
        /\ RenderUpdate(frameTime, scan)
        /\ tickDue' = FALSE
        /\ ticks' = ticks + 1
        /\ layers' = [i \in DOMAIN layers |-> LayerFrame(layers[i], isPaused)]
        /\ UNCHANGED <<frameTime, selectedLayerId, uuids, historyVars>>

LayerImageClick(img) == HasAlbum /\ ImageClick(img)

InitLayers ==
    /\ InitBase
    /\ layers \in {<<a, b>> : a \in LayerKinds, b \in LayerKinds}
    /\ PanelAtStart
    /\ frameTime \in Deltas
    /\ probe = FistHand
    /\ features = None

NextLayers ==
    \/ SceneMounted
    \/ \E gesture \in SceneGestures : GestureDelivered(gesture)
    \/ \E img \in ClickImages : LayerImageClick(img)
    \/ ExitPreviewClick
    \/ LayerTick

SpecLayers == InitLayers /\ [][NextLayers]_vars

\* C27: on a render tick with FocusTarget set no layer's animation advances;
\* on a render tick with FocusTarget none every layer that is mounted and
\* visible (and, for an album, not a grid) advances by one frame.
C27_PausedIffFocused ==
    [][ticks' # ticks =>
         \A i \in DOMAIN layers :
             IF focusTarget # None
             THEN layers'[i] = layers[i]
             ELSE LayerRuns(layers[i]) => layers'[i].frames = layers[i].frames + 1]_vars

\* C27 witness: an album and an image layer that ran for two ticks, were
\* held for the ticks of a focus, with the focus still set
C27_Witness ==
    /\ focusTarget # None
    /\ ticks >= 4
    /\ layers[1].type = "album" /\ layers[1].frames = 2
    /\ layers[2].type = "image" /\ layers[2].frames = 2


(***************************************************************************)
(* The palm position across camera sessions: the tracking refs outlive     *)
(* stopCamera, and each session runs with the isInPreview of its start.    *)
(***************************************************************************)
\* the detector sees a two-finger hand at one of the palm positions, or a fist
PalmOutcomes ==
    {[ok |-> TRUE, landmarks |-> <<TwoFingerHand(p)>>] : p \in PalmPositions}
    \cup {[ok |-> TRUE, landmarks |-> <<FistHand>>]}

InitPalm ==
    /\ InitBase
    /\ layers = SceneLayers
    /\ PanelAtStart
    /\ frameTime \in Deltas
    /\ probe = [track |-> [wasFist |-> FALSE, lastPalmPos |-> None,
                           smoothRot |-> <<0, 0>>, label |-> NoGesture],
                preview |-> FALSE, result |-> NullResult]
    /\ features = None

NextPalm ==
    \/ StartCamera
    \/ VideoPlaying
    \/ StopCamera
    \/ VideoAdvance
    \/ \E outcome \in PalmOutcomes : DetectTick(outcome)
    \/ SceneMounted
    \/ \E img \in ClickImages : ImageClick(img)
    \/ ExitPreviewClick

SpecPalm == InitPalm /\ [][NextPalm]_vars

\* C32: a Rotate carries the smoothed difference between the palm centre of
\* its frame and the palm centre of the processed frame just before it.
C32_RotateFromPrecedingFrame ==
    [][(TickStep /\ HasEvent(emitted', "Rotate")) =>
         /\ probe.result.ok
         /\ Len(probe.result.landmarks) > 0
         /\ LET before == probe.result.landmarks[1][PALM_CENTER]
                now == frame'.primary[PALM_CENTER]
            IN  /\ emitted'[1].dx = -lerp(smoothRot[1], (now[1] - before[1]) * 1000)
                /\ emitted'[1].dy = lerp(smoothRot[2], (now[2] - before[2]) * 1000)]_vars


(***************************************************************************)
(* The restore under zoom gestures: the gesture loop and the render loop   *)
(* take turns, one gesture at most between two render ticks, and the       *)
(* render loop never stops.                                                *)
(***************************************************************************)
\* the frame time of these behaviours, in milliseconds: step 0.8
RestoreDeltas == {200}

\* a zoom gesture reaches handleGesture during a restore
RestoreZoom(gesture) ==
    LET after == handleGesture(AppNow, gesture, orbitMounted, closedFocus)
    IN  /\ orbitMounted
        /\ focusTarget = None
        /\ stateRef.saved
        /\ ~tickDue
        /\ V3LenSq(after.camPos) <= MaxRange * MaxRange
        /\ tickDue' = TRUE
        /\ camPos' = after.camPos
        /\ camQuat' = after.camQuat
        /\ orbitTarget' = after.orbitTarget
        /\ UNCHANGED <<focusTarget, grabSignal, azimuth, polar>>
        /\ UNCHANGED <<frameTime, ticks, layers, selectedLayerId, uuids>>
        /\ UNCHANGED <<overlayVars, trackVars, videoVars, orbitMounted, rigVars, frameVars,
                       historyVars, probeVars>>

\* one frame of the render loop, at the behaviour's frame time
RestoreFrame ==
    /\ RenderUpdate(frameTime, <<>>)
    /\ tickDue' = FALSE
    /\ UNCHANGED <<frameTime, ticks, layers, selectedLayerId, uuids, historyVars>>

InitRestore ==
    /\ InitBase
    /\ layers = SceneLayers
    /\ PanelAtStart
    /\ frameTime \in RestoreDeltas
    /\ probe = FistHand
    /\ features = None

\* an image is clicked before the camera has left its first pose
RestoreImageClick(img) ==
    /\ ~stateRef.saved
    /\ camPos = <<0, 0, 3000>>
    /\ orbitTarget = <<0, 0, 0>>
    /\ ImageClick(img)

NextRestore ==
    \/ SceneMounted
    \/ \E img \in ClickImages : RestoreImageClick(img)
    \/ ExitPreviewClick
    \/ \E gesture \in ZoomEvents : RestoreZoom(gesture)
    \/ RestoreFrame

\* the render loop is called back for ever
SpecRestore == InitRestore /\ [][NextRestore]_vars /\ WF_vars(RestoreFrame)

\* C35: whenever FocusTarget is none and a saved pose is held, the pose is
\* eventually discarded and the controls enabled, or FocusTarget is set again.
C35_RestoreCompletes ==
    (focusTarget = None /\ stateRef.saved)
        ~> ((~stateRef.saved /\ controlsEnabled) \/ focusTarget # None)

(***************************************************************************)
(* Gestures during a preview.  The prediction loop keeps calling onGesture *)
(* while an image is focused: only the two-finger branch looks at          *)
(* isInPreview (part_001:181), the fist, palm and pinch branches emit      *)
(* Grab, Release, ZoomIn and ZoomOut as in free orbit.                     *)
(***************************************************************************)
PreviewGestures ==
    SceneGestures \cup ZoomEvents \cup {[type |-> "Rotate", dx |-> 25000, dy |-> 25000]}

\* onGesture(gesture) while an image is focused
PreviewGesture(gesture) ==
    /\ focusTarget # None
    /\ azimuth - 25000 * SENSITIVITY >= -MaxTurn
    /\ V3LenSq(handleGesture(AppNow, gesture, orbitMounted, closedFocus).camPos)
          <= MaxRange * MaxRange
    /\ GestureDelivered(gesture)

InitPreview ==
    /\ InitBase
    /\ layers = SceneLayers
    /\ PanelAtStart
    /\ frameTime \in RestoreDeltas
    /\ probe = FistHand
    /\ features = None

NextPreview ==
    \/ SceneMounted
    \/ \E img \in ClickImages : RestoreImageClick(img)
    \/ ExitPreviewClick
    \/ \E gesture \in PreviewGestures : PreviewGesture(gesture)
    \/ RestoreFrame

SpecPreview == InitPreview /\ [][NextPreview]_vars

\* a step in which handleGesture ran
GestureStep == ~tickDue /\ tickDue'

\* C36: a gesture handled while FocusTarget is set leaves the camera
\* position and the orbit target as they were.
C36_GesturesFrozenInFocus ==
    [][(GestureStep /\ focusTarget # None) =>
         (camPos' = camPos /\ orbitTarget' = orbitTarget)]_vars

(***************************************************************************)
(* gestureService.initialize(), await by await.  The service is one object *)
(* of the module (gestureService.ts:59); every startCamera call awaits     *)
(* initialize() on it and goes on to the camera when the call returns.     *)
(***************************************************************************)
\* faulty variant of initializeEntry: no isInitializing guard
initializeEntryUnguarded(landmarker, initializing) ==
    IF landmarker THEN "return" ELSE "start"

\* lines 11-12: what a call does before its first await
initializeEntry(landmarker, initializing) ==
    IF landmarker THEN "return"
    ELSE IF initializing THEN "return"
    ELSE "start"

CallAt(c, at) == session.calls[c].at = at

\* the calls that have set isInitializing and not yet reached the finally
InFlight == {c \in Callers : CallAt(c, "resolving") \/ CallAt(c, "creating")}

\* startCamera calls initialize(): lines 11-17, up to the first await
InitializeCalled(c) ==
    LET entry == initializeEntry(handLandmarker, session.isInitializing)
    IN  /\ CallAt(c, "idle")
        /\ session' = IF entry = "return"
                      THEN [session EXCEPT !.calls[c].at = "returned"]
                      ELSE [session EXCEPT !.isInitializing = TRUE,
                                           !.calls[c].at = "resolving"]
        /\ UNCHANGED <<isCameraActive, isLoading, loopRunning, isInPreview, closedFocus>>
        /\ UNCHANGED <<trackVars, videoVars, appVars, orbitMounted, rigVars, frameVars,
                       historyVars, loopVars, probeVars>>

\* FilesetResolver.forVisionTasks resolves: createFromOptions is started
FilesetResolved(c) ==
    /\ CallAt(c, "resolving")
    /\ session' = [session EXCEPT !.calls[c].at = "creating"]
    /\ UNCHANGED <<isCameraActive, isLoading, loopRunning, isInPreview, closedFocus>>
    /\ UNCHANGED <<trackVars, videoVars, appVars, orbitMounted, rigVars, frameVars,
                   historyVars, loopVars, probeVars>>

\* createFromOptions resolves: line 21 assigns, the finally clears the flag
CreationResolved(c) ==
    /\ CallAt(c, "creating")
    /\ handLandmarker' = TRUE
    /\ session' = [session EXCEPT !.isInitializing = FALSE, !.calls[c].at = "returned"]
    /\ UNCHANGED <<lastVideoTime, videoTime>>
    /\ UNCHANGED <<isCameraActive, isLoading, loopRunning, isInPreview, closedFocus>>
    /\ UNCHANGED <<trackVars, appVars, orbitMounted, rigVars, frameVars,
                   historyVars, loopVars, probeVars>>

\* either await rejects: the catch rethrows, the finally clears the flag
InitializeRejected(c) ==
    /\ c \in InFlight
    /\ session' = [session EXCEPT !.isInitializing = FALSE, !.calls[c].at = "threw"]
    /\ UNCHANGED <<isCameraActive, isLoading, loopRunning, isInPreview, closedFocus>>
    /\ UNCHANGED <<trackVars, videoVars, appVars, orbitMounted, rigVars, frameVars,
                   historyVars, loopVars, probeVars>>

\* startCamera after a rejected initialize(): the catch and the finally of
\* lines 100-106; the start button can be clicked again
StartGaveUp(c) ==
    /\ CallAt(c, "threw")
    /\ isCameraActive' = FALSE
    /\ session' = [session EXCEPT !.calls[c] = IdleCall]
    /\ UNCHANGED <<isLoading, loopRunning, isInPreview, closedFocus>>
    /\ UNCHANGED <<trackVars, videoVars, appVars, orbitMounted, rigVars, frameVars,
                   historyVars, loopVars, probeVars>>

\* startCamera after initialize() returned: the stream is attached, play()
\* resolves, setIsCameraActive(true), and predictWebcam() registers its
\* callback unless line 121 returns
CameraPlays(c) ==
    /\ CallAt(c, "returned")
    /\ isCameraActive' = TRUE
    /\ loopRunning' = (loopRunning \/ handLandmarker)
    /\ session' = [session EXCEPT !.calls[c] = [at |-> "active", looping |-> handLandmarker]]
    /\ UNCHANGED <<isLoading, isInPreview, closedFocus>>
    /\ UNCHANGED <<trackVars, videoVars, appVars, orbitMounted, rigVars, frameVars,
                   historyVars, loopVars, probeVars>>

InitInitialize ==
    /\ InitBase
    /\ layers = SceneLayers
    /\ PanelAtStart
    /\ frameTime \in Deltas
    /\ probe = FistHand
    /\ features = None

NextInitialize ==
    \E c \in Callers :
        \/ InitializeCalled(c)
        \/ FilesetResolved(c)
        \/ CreationResolved(c)
        \/ InitializeRejected(c)
        \/ StartGaveUp(c)
        \/ CameraPlays(c)

SpecInitialize == InitInitialize /\ [][NextInitialize]_vars

\* C37: at most one call is creating the landmarker at a time and none once
\* it exists; isInitializing is set exactly while a call is creating, so it
\* is clear after a failure and the next call starts a creation.
C37_SingleInitialization ==
    /\ Cardinality(InFlight) <= 1
    /\ handLandmarker => InFlight = {}
    /\ session.isInitializing <=> InFlight # {}
    /\ \A c \in Callers :
           (CallAt(c, "idle") /\ ~handLandmarker /\ InFlight = {}) =>
               initializeEntry(handLandmarker, session.isInitializing) = "start"

\* C37 witness: a call's creation failed, a later call is creating the
\* landmarker, and a third call made meanwhile has returned at once
C37_Witness ==
    \E a, b, c \in Callers :
        /\ CallAt(a, "threw")
        /\ CallAt(b, "creating")
        /\ CallAt(c, "returned")

\* C38: a call of initialize() that has returned has left a landmarker, and
\* a startCamera that went on to report the camera active has a prediction
\* loop registered.
C38_ReturnedMeansReady ==
    \A c \in Callers :
        /\ (CallAt(c, "returned") \/ CallAt(c, "active")) => handLandmarker
        /\ CallAt(c, "active") => session.calls[c].looping

(***************************************************************************)
(* The layer list and the selection.  ControlPanel calls the handlers with *)
(* the ids of listed layers and with updates that name neither id nor      *)
(* locked; a layer of the list is here [id, type, visible, locked].        *)
(***************************************************************************)
\* useState<string | null>: no layer selected
NoLayer == 0

ListedLayer(id, type, locked) ==
    [id |-> id, type |-> type, visible |-> TRUE, locked |-> locked]

\* lines 426-428
BaseLayer == ListedLayer(1, "particle", TRUE)

\* the add buttons of ControlPanel
LayerTypes == {"particle", "album"}

\* presets.ts: the layer types of 'snow_mountains' and 'christmas_tree'
SCENE_PRESETS ==
    [snow_mountains |-> <<"particle", "particle">>,
     christmas_tree |-> <<"particle", "particle", "particle", "particle">>]

LayerIds(list) == {list[i].id : i \in 1..Len(list)}

\* faulty variant of handleAddLayer: the selection stays where it was
handleAddLayerKeepsSelection(list, selected, type, id) ==
    [layers |-> Append(list, ListedLayer(id, type, FALSE)), selectedLayerId |-> selected]

\* lines 443-459; the defaults have no `locked` property
handleAddLayer(list, selected, type, id) ==
    [layers |-> Append(list, ListedLayer(id, type, FALSE)), selectedLayerId |-> id]

\* lines 461-463, for the update {visible: !layer.visible} of the eye button
handleUpdateLayer(list, id) ==
    [i \in 1..Len(list) |->
        IF list[i].id = id THEN [list[i] EXCEPT !.visible = ~list[i].visible] ELSE list[i]]

\* faulty variant of handleDeleteLayer: no early return for a locked layer
handleDeleteLayerUnguarded(list, selected, id) ==
    [layers |-> SelectSeq(list, LAMBDA l : l.id # id),
     selectedLayerId |-> IF selected = id THEN NoLayer ELSE selected]

\* lines 465-471
handleDeleteLayer(list, selected, id) ==
    IF \E i \in 1..Len(list) : list[i].id = id /\ list[i].locked
    THEN [layers |-> list, selectedLayerId |-> selected]
    ELSE [layers |-> SelectSeq(list, LAMBDA l : l.id # id),
          selectedLayerId |-> IF selected = id THEN NoLayer ELSE selected]

\* lines 491-503; the new layers get the uuids after `made`
handleLoadPreset(list, selected, presetId, made) ==
    IF presetId \in DOMAIN SCENE_PRESETS
    THEN LET preset == SCENE_PRESETS[presetId]
             newLayers == [i \in 1..Len(preset) |-> ListedLayer(made + i, preset[i], FALSE)]
         IN  [layers |-> list \o newLayers,
              selectedLayerId |-> IF Len(newLayers) > 0 THEN newLayers[1].id ELSE selected]
    ELSE [layers |-> list, selectedLayerId |-> selected]

\* what the steps of SpecPanel leave alone
PanelOnly ==
    /\ UNCHANGED <<tickDue, frameTime, ticks>>
    /\ UNCHANGED <<overlayVars, trackVars, videoVars, appVars, orbitMounted, rigVars,
                   frameVars, historyVars, probeVars>>

AddLayer(type) ==
    LET after == handleAddLayer(layers, selectedLayerId, type, uuids + 1)
    IN  /\ Len(layers) < MaxLayers /\ uuids < MaxUuids
        /\ layers' = after.layers
        /\ selectedLayerId' = after.selectedLayerId
        /\ uuids' = uuids + 1
        /\ PanelOnly

UpdateLayer(id) ==
    /\ layers' = handleUpdateLayer(layers, id)
    /\ UNCHANGED <<selectedLayerId, uuids>>
    /\ PanelOnly

DeleteLayer(id) ==
    LET after == handleDeleteLayer(layers, selectedLayerId, id)
    IN  /\ layers' = after.layers
        /\ selectedLayerId' = after.selectedLayerId
        /\ UNCHANGED uuids
        /\ PanelOnly

\* onSelectLayer of a row of the list
SelectLayer(id) ==
    /\ selectedLayerId' = id
    /\ UNCHANGED <<layers, uuids>>
    /\ PanelOnly

LoadPreset(presetId) ==
    LET after == handleLoadPreset(layers, selectedLayerId, presetId, uuids)
        n == Len(SCENE_PRESETS[presetId])
    IN  /\ Len(layers) + n <= MaxLayers /\ uuids + n <= MaxUuids
        /\ layers' = after.layers
        /\ selectedLayerId' = after.selectedLayerId
        /\ uuids' = uuids + n
        /\ PanelOnly

InitPanel ==
    /\ InitBase
    /\ layers = <<BaseLayer>>
    /\ PanelAtStart
    /\ frameTime \in Deltas
    /\ probe = FistHand
    /\ features = None

NextPanel ==
    \/ \E type \in LayerTypes : AddLayer(type)
    \/ \E id \in LayerIds(layers) : UpdateLayer(id)
    \/ \E id \in LayerIds(layers) : DeleteLayer(id)
    \/ \E id \in LayerIds(layers) : SelectLayer(id)
    \/ \E presetId \in DOMAIN SCENE_PRESETS : LoadPreset(presetId)

SpecPanel == InitPanel /\ [][NextPanel]_vars

\* C39: the locked Base Layer is in the list, deleting a locked layer gives
\* back the list and the selection as they are, and no other layer is
\* locked.
C39_BaseLayerStays ==
    /\ \E i \in 1..Len(layers) : layers[i].id = BaseLayer.id /\ layers[i].locked
    /\ \A i \in 1..Len(layers) :
           /\ layers[i].locked =>
                  handleDeleteLayer(layers, selectedLayerId, layers[i].id)
                      = [layers |-> layers, selectedLayerId |-> selectedLayerId]
           /\ layers[i].id # BaseLayer.id => ~layers[i].locked

\* C39 witness: a preset was loaded, a layer added, the base layer updated
\* and every layer but the base layer and one other deleted
C39_Witness ==
    /\ uuids = MaxUuids
    /\ Len(layers) = 2
    /\ layers[1].id = BaseLayer.id /\ layers[1].locked /\ ~layers[1].visible
    /\ layers[2].type = "album"

\* C40: selectedLayerId is null or the id of a listed layer; a step that
\* removes the selected layer clears it, and a step that lengthens the list
\* selects the first of the new layers.
C40_SelectionIsListed ==
    [][/\ selectedLayerId = NoLayer \/ selectedLayerId \in LayerIds(layers)
       /\ selectedLayerId' = NoLayer \/ selectedLayerId' \in LayerIds(layers')
       /\ (selectedLayerId \in LayerIds(layers) \ LayerIds(layers')) =>
              selectedLayerId' = NoLayer
       /\ Len(layers') > Len(layers) =>
              selectedLayerId' = layers'[Len(layers) + 1].id]_vars

\* C40 witness: the selected layer, the second of a loaded preset, was
\* deleted and the first is still listed
C40_Witness ==
    /\ selectedLayerId = NoLayer
    /\ uuids = 3
    /\ LayerIds(layers) = {1, 2}

=============================================================================
